---- MODULE Spec2Model ----
(***************************************************************************)
(* A model of the shakenfist API client (shakenfist_client/apiclient.py,   *)
(* shakenfist_client/util.py and two commands of the command line):        *)
(*   - Client._request_url, the authenticated request with the             *)
(*     dependency-not-ready retry loop (SpecRequest);                      *)
(*   - the polling loops of create_instance, allocate_network and          *)
(*     _await_agentop, each fetch going through _request_url (SpecPoll);   *)
(*   - the two chunked upload engines, Client.send_upload_file and         *)
(*     util.upload_artifact_with_progress_file_like_object (SpecUpload);   *)
(*   - the resumable downloads of commandline/artifact.py and              *)
(*     commandline/backup.py around Client.get_blob_data (SpecDownload).   *)
(* Time is counted in whole seconds: time.sleep(1) advances the clock by   *)
(* one, a request by zero or (a bounded number of times) by one.           *)
(***************************************************************************)
EXTENDS Integers, Sequences, FiniteSets, TLC

VARIABLES
    op,            \* the client operation being run
    pc,            \* position inside the operation
    async_strategy,\* Client.async_strategy
    capabilities,  \* capability strings present in Client.root_html
    now,           \* time.time(), in seconds
    cached_auth,   \* Client.cached_auth: 0 is None, k is the k-th token fetched
    base_url,      \* Client.base_url
    rqPc,          \* position inside the current _request_url call
    rqReq,         \* the request (method and url) the current call was given
    rqDeadline,    \* local `deadline` of _request_url
    rqExc,         \* the exception the current _request_url call raised
    rqRes,         \* what the call's latest _actual_request_url gave: the
                   \* response returned or the exception raised
    attempts,      \* sends of the call's own request, this call
    sleeps,        \* time.sleep(1) calls made by _request_url, this call
    rq401,         \* 401 answers to the call's own request, this call
    rq406,         \* 406 answers to the call's own request, this call
    pastDeadline406,\* a 406 of this call was examined with the deadline passed
    authCalls,     \* calls of _authenticate so far
    lastRequest,   \* the last request put on the wire
    tot401,        \* 401 answers so far (environment budget)
    tot406,        \* 406 answers so far (environment budget)
    slow,          \* requests that took one second so far (environment budget)
    deadline,      \* local `deadline` of the polling loop
    snap,          \* state field of the snapshot the polling loop holds
    inProgSeen,    \* in-progress snapshots observed so far, initial included
    fetches,       \* re-fetches made by the polling loop
    pollSleeps,    \* time.sleep(1) calls made by the polling loop
    lastSleepAt,   \* time at which the polling loop's latest sleep began
    opExc,         \* the exception the operation raised
    up,            \* the upload engine's state (a record)
    down,          \* the download engine's state (a record)
    sentTo,        \* the base address the last request was sent to
    most_recent_request_id, \* Client.most_recent_request_id
    loc            \* locals and result of the operation being run (a record)

rqVars == <<rqPc, rqReq, rqDeadline, rqExc, rqRes, attempts, sleeps, rq401,
            rq406, pastDeadline406>>
envVars == <<tot401, tot406, slow>>
clientVars == <<cached_auth, base_url, authCalls>>
pollVars == <<deadline, snap, inProgSeen, fetches, pollSleeps, lastSleepAt>>
vars == <<op, pc, async_strategy, capabilities, now, cached_auth, base_url,
          rqPc, rqReq, rqDeadline, rqExc, rqRes, attempts, sleeps, rq401,
          rq406, pastDeadline406, authCalls, lastRequest, tot401, tot406, slow,
          deadline, snap, inProgSeen, fetches, pollSleeps, lastSleepAt, opExc,
          up, down, sentTo, most_recent_request_id, loc>>

(***************************************************************************)
(* Bounds of the model (the environment's budget, not program constants).  *)
(***************************************************************************)
Max401 == 2          \* 401 answers the server gives to one bare _request_url
MaxSlow == 1         \* requests of a bare _request_url that take a second
MaxPollFaults == 1   \* 401 answers, 406 answers and one-second requests
                     \* during one polling operation, taken together
MaxInProgress == 63  \* in-progress snapshots the server serves to one loop
MaxCreatingLists == 2 \* lists of snapshots that show a blob newly created
MaxConnFaults == 2   \* _actual_request_url calls whose connection fails

Min(a, b) == IF a < b THEN a ELSE b
Max(a, b) == IF a > b THEN a ELSE b

(***************************************************************************)
(* Async strategies and the deadline policy.                               *)
(***************************************************************************)
ASYNC_CONTINUE == "continue"
ASYNC_PAUSE == "pause"
ASYNC_BLOCK == "block"

Strategies == {ASYNC_CONTINUE, ASYNC_PAUSE, ASYNC_BLOCK, "bogus"}
KnownStrategies == {ASYNC_CONTINUE, ASYNC_PAUSE, ASYNC_BLOCK}

PauseSeconds == 60
BlockSeconds == 3600

\* _calculate_async_deadline: the duration added to time.time().  For an
\* unknown strategy the function raises; StrategyKnown is the guard.
StrategyKnown(strategy) == strategy \in KnownStrategies

\* Variant: strategy continue yields 0, a deadline equal to now.
CalculateAsyncDeadlineZero(strategy) ==
    IF strategy = ASYNC_CONTINUE THEN 0
    ELSE IF strategy = ASYNC_PAUSE THEN PauseSeconds
    ELSE BlockSeconds

\* Variant: strategy block waits as long as strategy pause.
CalculateAsyncDeadlineBlockAsPause(strategy) ==
    IF strategy = ASYNC_CONTINUE THEN -1
    ELSE IF strategy = ASYNC_PAUSE THEN PauseSeconds
    ELSE PauseSeconds

_calculate_async_deadline(strategy) ==
    IF strategy = ASYNC_CONTINUE THEN -1
    ELSE IF strategy = ASYNC_PAUSE THEN PauseSeconds
    ELSE BlockSeconds

\* `raise UnknownAsyncStrategy(msg)`: the class inherits APIException's
\* five-argument __init__, so constructing it with one argument raises
\* TypeError instead.
UnknownStrategyError == "TypeError"

(***************************************************************************)
(* The transport primitive, Client._actual_request_url.                    *)
(***************************************************************************)
STATUS_CODES_TO_ERRORS ==
    [s \in {400, 401, 403, 404, 406, 409, 500, 507} |->
        CASE s = 400 -> "RequestMalformedException"
          [] s = 401 -> "UnauthenticatedException"
          [] s = 403 -> "UnauthorizedException"
          [] s = 404 -> "ResourceNotFoundException"
          [] s = 406 -> "DependenciesNotReadyException"
          [] s = 409 -> "ResourceStateConflictException"
          [] s = 500 -> "InternalServerError"
          [] s = 507 -> "InsufficientResourcesException"]

\* The statuses the server may answer with (302 stands for every status the
\* table does not name).
Statuses == {200, 301, 302} \cup DOMAIN STATUS_CODES_TO_ERRORS

\* Variant: a status of the table outside 401 and 406 raises the generic
\* APIException.
ActualRequestErrorCollapsed(status, allow_redirects) ==
    IF status \in {401, 406}
    THEN STATUS_CODES_TO_ERRORS[status]
    ELSE IF status = 200 \/ (~allow_redirects /\ status = 301)
         THEN "none"
         ELSE "APIException"

\* The exception _actual_request_url raises for a status, "none" if it
\* returns the response.
ActualRequestError(status, allow_redirects) ==
    IF status \in DOMAIN STATUS_CODES_TO_ERRORS
    THEN STATUS_CODES_TO_ERRORS[status]
    ELSE IF status = 200 \/ (~allow_redirects /\ status = 301)
         THEN "none"
         ELSE "APIException"

\* No _actual_request_url has been made by the call.
NoOutcome == [type |-> "nothing"]

\* r.text, the body the server sends with a status.
ResponseText(status) == <<"text of", status>>

\* What _actual_request_url gives for a request sent to a base address and
\* answered with a status: the exception it raises, with the arguments it is
\* constructed from, or (type "none") the response it returns.
ActualRequestOutcome(request, base, status, allow_redirects) ==
    [type |-> ActualRequestError(status, allow_redirects),
     message |-> IF ActualRequestError(status, allow_redirects) = "none"
                 THEN "none" ELSE "API request failed",
     request |-> request,
     base |-> base,
     status_code |-> status,
     text |-> ResponseText(status)]

\* Variant: the redirect of the probe is not taken up.
ProbeRedirectIgnored(status, base) == base

\* `if probe.status_code == 301: self.base_url = probe.headers['Location']`
ProbeRedirect(status, base) == IF status = 301 THEN "location" ELSE base

\* The environment's budget of a polling operation is not used up; the
\* faults of the hour-long wait of snapshot_instance fall in its first lists.
PollFaultsLeft ==
    /\ tot401 + tot406 + slow < MaxPollFaults
    /\ op = "snapshot_instance" => fetches < MaxCreatingLists

\* How long a request may take (seconds), given the environment's budget.
Durations ==
    IF op = "request_url"
    THEN IF slow < MaxSlow THEN {0, 1} ELSE {0}
    ELSE IF PollFaultsLeft THEN {0, 1} ELSE {0}

\* Which statuses the server may still answer with, given its budget: a
\* bare _request_url may be answered by any number of 406s, and the hour of
\* requests of snapshot_instance by a status other than 200 only within the
\* budget.
Allowed(status) ==
    /\ status = 401 =>
          IF op = "request_url" THEN tot401 < Max401 ELSE PollFaultsLeft
    /\ status = 406 => (op = "request_url" \/ PollFaultsLeft)
    /\ (op = "snapshot_instance" /\ status # 200) => PollFaultsLeft

Count401(status) == IF status = 401 THEN tot401 + 1 ELSE tot401
Count406(status) == IF status = 406 THEN tot406 + 1 ELSE tot406

\* self.most_recent_request_id = r.headers.get('X-Request-ID'): the id the
\* server gave its answer to `request`.
RequestId(request) == <<"id of", request>>

\* Client.most_recent_request_id of a client about to make a call: None
\* (NoRequestId) after Client.__init__, the id of an earlier answer once a
\* call was made.
NoRequestId == <<>>
EarlierRequestId(cached) ==
    IF cached = 0 THEN NoRequestId ELSE RequestId("an earlier request")

\* How the connection may treat one _actual_request_url: "kept" (the first
\* session.request is answered), "rebuilt" (it raises ConnectionError, the
\* session is replaced and the second session.request is answered) and
\* "lost" (the second raises ConnectionError too).  Connections fail only
\* in the transport runs, within their budget.
Connections ==
    IF op = "transport" /\ loc.faults < MaxConnFaults
    THEN {"kept", "rebuilt", "lost"}
    ELSE {"kept"}

\* What _actual_request_url gives when its second session.request raises.
ConnectionLost(request, base) ==
    [type |-> "ConnectionError",
     message |-> "none",
     request |-> request,
     base |-> base,
     status_code |-> 0,
     text |-> <<>>]

\* Variant: the request is sent again after the second ConnectionError too.
WireSendsTwiceMore(conn) == IF conn = "kept" THEN 1 ELSE 3

\* The session.request calls of one _actual_request_url.
WireSends(conn) == IF conn = "kept" THEN 1 ELSE 2

\* The locals of a transport run after an _actual_request_url for
\* `request`: the sessions made by `self.session = requests.Session()`,
\* the requests handed to session.request by this call, in order, how the
\* connection treated it, and the clock and retry counters when it began.
Transported(l, request, conn) ==
    IF l.op # "transport" THEN l
    ELSE [l EXCEPT !.sessions = IF conn = "kept" THEN @ ELSE @ + 1,
                   !.wire = [k \in 1 .. WireSends(conn) |-> request],
                   !.conn = conn,
                   !.faults = IF conn = "kept" THEN @ ELSE @ + 1,
                   !.began = [now |-> now, sleeps |-> sleeps,
                              authCalls |-> authCalls]]

(***************************************************************************)
(* Client._request_url.                                                    *)
(***************************************************************************)
\* Variant: the base address is probed although a credential is cached.
RqCachedProbesAnyway ==
    /\ rqPc = "start"
    /\ cached_auth # 0
    /\ rqPc' = "deadline"
    /\ lastRequest' = "probe"
    /\ sentTo' = base_url
    /\ rqRes' = ActualRequestOutcome("probe", base_url, 200, FALSE)
    /\ most_recent_request_id' = RequestId("probe")
    /\ UNCHANGED <<op, pc, async_strategy, capabilities, now, clientVars,
                   rqReq, rqDeadline, rqExc, attempts, sleeps, rq401, rq406,
                   pastDeadline406, envVars, pollVars, opExc, up, down, loc>>

\* `if not self.cached_auth:` with a credential cached: nothing is sent.
RqCached ==
    /\ rqPc = "start"
    /\ cached_auth # 0
    /\ rqPc' = "deadline"
    /\ UNCHANGED <<rqRes, op, pc, async_strategy, capabilities, now, clientVars,
                   rqReq, rqDeadline, rqExc, attempts, sleeps, rq401, rq406,
                   pastDeadline406, lastRequest, sentTo, envVars, pollVars,
                   opExc, up, down, loc,
                   most_recent_request_id>>

\* The probe of the base address, redirects not followed.
RqProbe ==
    /\ rqPc = "start"
    /\ cached_auth = 0
    /\ \E status \in Statuses, d \in Durations, conn \in Connections :
        /\ Allowed(status)
        /\ conn = "lost" => status = 200 /\ d = 0
        /\ lastRequest' = "probe"
        /\ sentTo' = base_url
        /\ loc' = Transported(loc, "probe", conn)
        /\ now' = now + d
        /\ slow' = slow + d
        /\ IF conn = "lost"
           THEN /\ rqRes' = ConnectionLost("probe", base_url)
                /\ rqPc' = "raised"
                /\ rqExc' = "ConnectionError"
                /\ UNCHANGED <<most_recent_request_id, tot401, tot406,
                               base_url>>
           ELSE /\ rqRes' = ActualRequestOutcome("probe", base_url, status,
                                                 FALSE)
                /\ most_recent_request_id' = RequestId("probe")
                /\ tot401' = Count401(status)
                /\ tot406' = IF op = "request_url" THEN tot406
                           ELSE Count406(status)
                /\ IF ActualRequestError(status, FALSE) # "none"
                   THEN /\ rqPc' = "raised"
                        /\ rqExc' = ActualRequestError(status, FALSE)
                        /\ UNCHANGED base_url
                   ELSE /\ rqPc' = "authenticate"
                        /\ rqExc' = rqExc
                        /\ base_url' = ProbeRedirect(status, base_url)
    /\ UNCHANGED <<op, pc, async_strategy, capabilities, cached_auth,
                   authCalls, rqReq, rqDeadline, attempts, sleeps, rq401,
                   rq406, pastDeadline406, pollVars, opExc, up, down>>

\* self.cached_auth = self._authenticate(), before the loop.
RqAuthenticate ==
    /\ rqPc = "authenticate"
    /\ \E ok \in BOOLEAN :
        /\ lastRequest' = "auth"
        /\ sentTo' = base_url
        /\ authCalls' = authCalls + 1
        /\ IF ok
           THEN /\ cached_auth' = authCalls + 1
                /\ rqPc' = "deadline"
                /\ rqExc' = rqExc
           ELSE /\ cached_auth' = cached_auth
                /\ rqPc' = "raised"
                /\ rqExc' = "UnauthenticatedException"
    /\ UNCHANGED <<rqRes, op, pc, async_strategy, capabilities, now, base_url,
                   rqReq, rqDeadline, attempts, sleeps, rq401, rq406,
                   pastDeadline406, envVars, pollVars, opExc, up, down, loc,
                   most_recent_request_id>>

\* deadline = time.time() + _calculate_async_deadline(self.async_strategy)
RqDeadline ==
    /\ rqPc = "deadline"
    /\ IF StrategyKnown(async_strategy)
       THEN /\ rqDeadline' = now + _calculate_async_deadline(async_strategy)
            /\ rqPc' = "attempt"
            /\ rqExc' = rqExc
       ELSE /\ rqDeadline' = rqDeadline
            /\ rqPc' = "raised"
            /\ rqExc' = UnknownStrategyError
    /\ UNCHANGED <<rqRes, op, pc, async_strategy, capabilities, now, clientVars,
                   rqReq, attempts, sleeps, rq401, rq406, pastDeadline406,
                   lastRequest, sentTo, envVars, pollVars, opExc, up, down, loc,
                   most_recent_request_id>>

\* The first _actual_request_url of a loop iteration (inner try).
RqAttempt ==
    /\ rqPc = "attempt"
    /\ \E status \in Statuses, d \in Durations, conn \in Connections :
        /\ Allowed(status)
        /\ conn = "lost" => status = 200 /\ d = 0
        /\ lastRequest' = rqReq
        /\ sentTo' = base_url
        /\ loc' = Transported(loc, rqReq, conn)
        /\ attempts' = attempts + 1
        /\ now' = now + d
        /\ slow' = slow + d
        /\ IF conn = "lost"
           THEN /\ rqRes' = ConnectionLost(rqReq, base_url)
                /\ rqPc' = "raised"
                /\ rqExc' = "ConnectionError"
                /\ UNCHANGED <<most_recent_request_id, tot401, tot406,
                               rq401, rq406>>
           ELSE /\ rqRes' = ActualRequestOutcome(rqReq, base_url, status, TRUE)
                /\ most_recent_request_id' = RequestId(rqReq)
                /\ tot401' = Count401(status)
                /\ tot406' = IF op = "request_url" THEN tot406
                           ELSE Count406(status)
                /\ rq401' = IF status = 401 THEN rq401 + 1 ELSE rq401
                /\ rq406' = IF status = 406 THEN rq406 + 1 ELSE rq406
                /\ LET e == ActualRequestError(status, TRUE) IN
                    IF e = "none"
                    THEN rqPc' = "returned" /\ rqExc' = rqExc
                    ELSE IF e = "UnauthenticatedException"
                    THEN rqPc' = "reauthenticate" /\ rqExc' = rqExc
                    ELSE IF e = "DependenciesNotReadyException"
                    THEN rqPc' = "notready" /\ rqExc' = rqExc
                    ELSE rqPc' = "raised" /\ rqExc' = e
    /\ UNCHANGED <<op, pc, async_strategy, capabilities, clientVars, rqReq,
                   rqDeadline, sleeps, pastDeadline406, pollVars, opExc, up,
                   down>>

\* except UnauthenticatedException: self.cached_auth = self._authenticate()
RqReauthenticate ==
    /\ rqPc = "reauthenticate"
    /\ \E ok \in BOOLEAN :
        /\ lastRequest' = "auth"
        /\ sentTo' = base_url
        /\ authCalls' = authCalls + 1
        /\ IF ok
           THEN /\ cached_auth' = authCalls + 1
                /\ rqPc' = "repeat"
                /\ rqExc' = rqExc
           ELSE /\ cached_auth' = cached_auth
                /\ rqPc' = "raised"
                /\ rqExc' = "UnauthenticatedException"
    /\ UNCHANGED <<rqRes, op, pc, async_strategy, capabilities, now, base_url,
                   rqReq, rqDeadline, attempts, sleeps, rq401, rq406,
                   pastDeadline406, envVars, pollVars, opExc, up, down, loc,
                   most_recent_request_id>>

\* Variant: a 401 answer to the repeated request is handled like the first.
RqRepeatRefreshesAgain ==
    /\ rqPc = "repeat"
    /\ \E status \in Statuses, d \in Durations :
        /\ Allowed(status)
        /\ lastRequest' = rqReq
        /\ sentTo' = base_url
        /\ rqRes' = ActualRequestOutcome(rqReq, base_url, status, TRUE)
        /\ most_recent_request_id' = RequestId(rqReq)
        /\ attempts' = attempts + 1
        /\ now' = now + d
        /\ slow' = slow + d
        /\ tot401' = Count401(status)
        /\ tot406' = IF op = "request_url" THEN tot406 ELSE Count406(status)
        /\ rq401' = IF status = 401 THEN rq401 + 1 ELSE rq401
        /\ rq406' = IF status = 406 THEN rq406 + 1 ELSE rq406
        /\ LET e == ActualRequestError(status, TRUE) IN
            IF e = "none"
            THEN rqPc' = "returned" /\ rqExc' = rqExc
            ELSE IF e = "UnauthenticatedException"
            THEN rqPc' = "reauthenticate" /\ rqExc' = rqExc
            ELSE IF e = "DependenciesNotReadyException"
            THEN rqPc' = "notready" /\ rqExc' = rqExc
            ELSE rqPc' = "raised" /\ rqExc' = e
    /\ UNCHANGED <<op, pc, async_strategy, capabilities, clientVars, rqReq,
                   rqDeadline, sleeps, pastDeadline406, pollVars, opExc, up,
                   down, loc>>


\* The second _actual_request_url, inside the except clause: only a 406 is
\* caught (by the outer try); a 401 propagates.
RqRepeat ==
    /\ rqPc = "repeat"
    /\ \E status \in Statuses, d \in Durations, conn \in Connections :
        /\ Allowed(status)
        /\ conn = "lost" => status = 200 /\ d = 0
        /\ lastRequest' = rqReq
        /\ sentTo' = base_url
        /\ loc' = Transported(loc, rqReq, conn)
        /\ attempts' = attempts + 1
        /\ now' = now + d
        /\ slow' = slow + d
        /\ IF conn = "lost"
           THEN /\ rqRes' = ConnectionLost(rqReq, base_url)
                /\ rqPc' = "raised"
                /\ rqExc' = "ConnectionError"
                /\ UNCHANGED <<most_recent_request_id, tot401, tot406,
                               rq401, rq406>>
           ELSE /\ rqRes' = ActualRequestOutcome(rqReq, base_url, status, TRUE)
                /\ most_recent_request_id' = RequestId(rqReq)
                /\ tot401' = Count401(status)
                /\ tot406' = IF op = "request_url" THEN tot406
                           ELSE Count406(status)
                /\ rq401' = IF status = 401 THEN rq401 + 1 ELSE rq401
                /\ rq406' = IF status = 406 THEN rq406 + 1 ELSE rq406
                /\ LET e == ActualRequestError(status, TRUE) IN
                    IF e = "none"
                    THEN rqPc' = "returned" /\ rqExc' = rqExc
                    ELSE IF e = "DependenciesNotReadyException"
                    THEN rqPc' = "notready" /\ rqExc' = rqExc
                    ELSE rqPc' = "raised" /\ rqExc' = e
    /\ UNCHANGED <<op, pc, async_strategy, capabilities, clientVars, rqReq,
                   rqDeadline, sleeps, pastDeadline406, pollVars, opExc, up,
                   down>>

\* Variant: the deadline counts as passed at the deadline itself.
DeadlinePassedAtDeadline(t, dl) == t >= dl

\* Variant: the deadline counts as passed one second late.
DeadlinePassedLate(t, dl) == t > dl + 1

\* The deadline test `time.time() > deadline` of _request_url and of the
\* polling loops.
DeadlinePassed(t, dl) == t > dl

\* Variant: time.sleep(1) comes before the deadline test.
RqNotReadySleepsFirst ==
    /\ rqPc = "notready"
    /\ sleeps' = sleeps + 1
    /\ now' = now + 1
    /\ IF DeadlinePassed(now + 1, rqDeadline)
       THEN /\ rqPc' = "raised"
            /\ rqExc' = "DependenciesNotReadyException"
            /\ pastDeadline406' = TRUE
       ELSE /\ rqPc' = "attempt"
            /\ UNCHANGED <<rqExc, pastDeadline406>>
    /\ UNCHANGED <<rqRes, op, pc, async_strategy, capabilities, clientVars,
                   rqReq,
                   rqDeadline, attempts, rq401, rq406, lastRequest, sentTo,
                   envVars,
                   pollVars, opExc, up, down, loc,
                   most_recent_request_id>>

\* except DependenciesNotReadyException as e: raise e, or sleep and loop.
RqNotReady ==
    /\ rqPc = "notready"
    /\ IF DeadlinePassed(now, rqDeadline)
       THEN /\ rqPc' = "raised"
            /\ rqExc' = "DependenciesNotReadyException"
            /\ pastDeadline406' = TRUE
            /\ UNCHANGED <<now, sleeps>>
       ELSE /\ sleeps' = sleeps + 1
            /\ now' = now + 1
            /\ rqPc' = "attempt"
            /\ UNCHANGED <<rqExc, pastDeadline406>>
    /\ UNCHANGED <<rqRes, op, pc, async_strategy, capabilities, clientVars,
                   rqReq,
                   rqDeadline, attempts, rq401, rq406, lastRequest, sentTo,
                   envVars,
                   pollVars, opExc, up, down, loc,
                   most_recent_request_id>>

NextRequest ==
    \/ RqCached
    \/ RqProbe
    \/ RqAuthenticate
    \/ RqDeadline
    \/ RqAttempt
    \/ RqReauthenticate
    \/ RqRepeat
    \/ RqNotReady

\* The locals of an operation while none that keeps any is running.
NoLocals == [op |-> "none"]

\* The upload engine's state while no upload runs.
NoUpload == [pc |-> "idle"]

\* The download engine's state while no download runs.
NoDownload == [pc |-> "idle"]

\* A client as Client.__init__ leaves it, or one that has made requests
\* before (a credential is cached), about to run _request_url.
InitRequest ==
    /\ op = "request_url"
    /\ pc = "call"
    /\ async_strategy \in Strategies
    /\ capabilities = {}
    /\ now = 0
    /\ cached_auth \in {0, 1}
    /\ authCalls = cached_auth
    /\ base_url = "base_url"
    /\ rqPc = "start"
    /\ rqReq = "DELETE /auth/namespaces/ns"
    /\ rqDeadline = 0
    /\ rqExc = "none"
    /\ rqRes = NoOutcome
    /\ attempts = 0
    /\ sleeps = 0
    /\ rq401 = 0
    /\ rq406 = 0
    /\ pastDeadline406 = FALSE
    /\ lastRequest = "none"
    /\ tot401 = 0
    /\ tot406 = 0
    /\ slow = 0
    /\ deadline = 0
    /\ snap = "none"
    /\ inProgSeen = 0
    /\ fetches = 0
    /\ pollSleeps = 0
    /\ lastSleepAt = 0
    /\ opExc = "none"
    /\ up = NoUpload
    /\ down = NoDownload
    /\ sentTo = "none"
    /\ most_recent_request_id = EarlierRequestId(cached_auth)
    /\ loc = NoLocals

SpecRequest == InitRequest /\ [][NextRequest]_vars

(***************************************************************************)
(* _request_url over a connection that may fail (SpecTransport).           *)
(***************************************************************************)
\* The locals of a transport run before its first _actual_request_url.
TransportLocals ==
    [op |-> "transport", sessions |-> 0, wire |-> <<>>, conn |-> "none",
     faults |-> 0, began |-> [now |-> 0, sleeps |-> 0, authCalls |-> 0]]

\* A client as Client.__init__ leaves it, or one with a cached credential,
\* about to run _request_url.
InitTransport ==
    /\ op = "transport"
    /\ pc = "call"
    /\ async_strategy \in KnownStrategies
    /\ capabilities = {}
    /\ now = 0
    /\ cached_auth \in {0, 1}
    /\ authCalls = cached_auth
    /\ base_url = "base_url"
    /\ rqPc = "start"
    /\ rqReq = "DELETE /auth/namespaces/ns"
    /\ rqDeadline = 0
    /\ rqExc = "none"
    /\ rqRes = NoOutcome
    /\ attempts = 0
    /\ sleeps = 0
    /\ rq401 = 0
    /\ rq406 = 0
    /\ pastDeadline406 = FALSE
    /\ lastRequest = "none"
    /\ tot401 = 0
    /\ tot406 = 0
    /\ slow = 0
    /\ deadline = 0
    /\ snap = "none"
    /\ inProgSeen = 0
    /\ fetches = 0
    /\ pollSleeps = 0
    /\ lastSleepAt = 0
    /\ opExc = "none"
    /\ up = NoUpload
    /\ down = NoDownload
    /\ sentTo = "none"
    /\ most_recent_request_id = EarlierRequestId(cached_auth)
    /\ loc = TransportLocals

SpecTransport == InitTransport /\ [][NextRequest]_vars

(***************************************************************************)
(* The polling operations: create_instance, allocate_network, and          *)
(* instance_execute (which hands its response to _await_agentop).          *)
(***************************************************************************)
PollOps == {"create_instance", "allocate_network", "instance_execute"}

\* The states a resource's snapshot may carry.
ResourceStates(o) ==
    IF o = "instance_execute"
    THEN {"queued", "executing", "complete", "error"}
    ELSE {"initial", "creating", "created", "error"}

\* Variant: only 'creating' keeps an instance or network loop going.
InProgressCreatingOnly(o, state) ==
    IF o = "instance_execute"
    THEN state # "complete"
    ELSE state = "creating"

\* Variant: 'created' also keeps an instance or network loop going.
InProgressIncludesCreated(o, state) ==
    IF o = "instance_execute"
    THEN state # "complete"
    ELSE state \in {"initial", "creating", "created"}

\* The loop's test on the snapshot: `i['state'] not in ['initial',
\* 'creating']` for instances and networks, `r['state'] == 'complete'` for
\* agent operations.
InProgress(o, state) ==
    IF o = "instance_execute"
    THEN state # "complete"
    ELSE state \in {"initial", "creating"}

\* The snapshots the server may still serve, given its budget.
Servable(o) ==
    {s \in ResourceStates(o) :
        InProgress(o, s) => inProgSeen < MaxInProgress}

MutatingRequest(o) ==
    CASE o = "create_instance" -> "POST /instances"
      [] o = "allocate_network" -> "POST /networks"
      [] o = "instance_execute" -> "POST /instances/ref/agent/execute"

FetchRequest(o) ==
    CASE o = "create_instance" -> "GET /instances/uuid"
      [] o = "allocate_network" -> "GET /networks/uuid"
      [] o = "instance_execute" -> "GET /agentoperations/uuid"

\* The capability the operation tests before its mutating request ("none":
\* no test).  allocate_network tests 'provide-dns' only when asked for DNS.
PostCapability(o, provide_dns) ==
    CASE o = "create_instance" -> "none"
      [] o = "allocate_network" ->
            IF provide_dns THEN "provide-dns" ELSE "none"
      [] o = "instance_execute" -> "instance-execute"

\* The capability the re-fetch tests: get_instance and get_network without a
\* namespace test none, get_agent_operation tests 'agentoperations-crud'.
FetchCapability(o) ==
    IF o = "instance_execute" THEN "agentoperations-crud" ELSE "none"

Capable(c) == c = "none" \/ c \in capabilities

\* What a polling operation has of the server: the state of the snapshot
\* the server served last, and the state of the snapshot returned.
PollLocals == [op |-> "poll", served |-> "none", result |-> "none"]

\* A _request_url call is over: its locals are gone.
CallOver ==
    /\ rqPc' = "idle"
    /\ rqReq' = "none"
    /\ rqDeadline' = 0
    /\ rqExc' = "none"
    /\ rqRes' = NoOutcome
    /\ attempts' = 0
    /\ sleeps' = 0
    /\ rq401' = 0
    /\ rq406' = 0
    /\ pastDeadline406' = FALSE

\* The operation's capability test, then r = self._request_url('POST', ...).
PollPost ==
    /\ op \in PollOps
    /\ pc = "post"
    /\ \E provide_dns \in BOOLEAN :
        IF Capable(PostCapability(op, provide_dns))
        THEN /\ pc' = "post_wait"
             /\ rqPc' = "start"
             /\ rqReq' = MutatingRequest(op)
             /\ opExc' = opExc
        ELSE /\ pc' = "raised"
             /\ opExc' = "IncapableException"
             /\ UNCHANGED <<rqPc, rqReq>>
    /\ UNCHANGED <<rqRes, op, async_strategy, capabilities, now, clientVars,
                   rqDeadline, rqExc, attempts, sleeps, rq401, rq406,
                   pastDeadline406, lastRequest, sentTo, envVars, pollVars,
                   up, down, loc,
                   most_recent_request_id>>

\* i = r.json(); deadline = time.time() + _calculate_async_deadline(...)
PollPosted ==
    /\ pc = "post_wait"
    /\ rqPc = "returned"
    /\ \E s \in Servable(op) :
        /\ snap' = s
        /\ loc' = [loc EXCEPT !.served = s]
        /\ inProgSeen' = IF InProgress(op, s) THEN 1 ELSE 0
    /\ IF StrategyKnown(async_strategy)
       THEN /\ deadline' = now + _calculate_async_deadline(async_strategy)
            /\ pc' = "check"
            /\ opExc' = opExc
       ELSE /\ deadline' = deadline
            /\ pc' = "raised"
            /\ opExc' = UnknownStrategyError
    /\ CallOver
    /\ UNCHANGED <<op, async_strategy, capabilities, now, clientVars,
                   lastRequest, sentTo, envVars, fetches, pollSleeps,
                   lastSleepAt, up, down, most_recent_request_id>>

\* An exception of _request_url is not caught by the operation.
PollRaised ==
    /\ pc \in {"post_wait", "fetch_wait"}
    /\ rqPc = "raised"
    /\ pc' = "raised"
    /\ opExc' = rqExc
    /\ CallOver
    /\ UNCHANGED <<op, async_strategy, capabilities, now, clientVars,
                   lastRequest, sentTo, envVars, pollVars, up, down, loc,
                   most_recent_request_id>>

\* `if i['state'] not in ['initial', 'creating']: return i`
PollReturnState ==
    /\ pc = "check"
    /\ ~InProgress(op, snap)
    /\ pc' = "returned"
    /\ loc' = [loc EXCEPT !.result = snap]
    /\ UNCHANGED <<op, async_strategy, capabilities, now, clientVars, rqVars,
                   lastRequest, sentTo, envVars, pollVars, opExc, up, down,
                   most_recent_request_id>>

\* `if time.time() > deadline: return i`
PollReturnDeadline ==
    /\ pc = "check"
    /\ InProgress(op, snap)
    /\ DeadlinePassed(now, deadline)
    /\ pc' = "returned"
    /\ loc' = [loc EXCEPT !.result = snap]
    /\ UNCHANGED <<op, async_strategy, capabilities, now, clientVars, rqVars,
                   lastRequest, sentTo, envVars, pollVars, opExc, up, down,
                   most_recent_request_id>>

\* time.sleep(1), then the re-fetch up to its call of _request_url.
PollSleep ==
    /\ pc = "check"
    /\ InProgress(op, snap)
    /\ ~DeadlinePassed(now, deadline)
    /\ lastSleepAt' = now
    /\ now' = now + 1
    /\ pollSleeps' = pollSleeps + 1
    /\ IF Capable(FetchCapability(op))
       THEN /\ pc' = "fetch_wait"
            /\ rqPc' = "start"
            /\ rqReq' = FetchRequest(op)
            /\ opExc' = opExc
       ELSE /\ pc' = "raised"
            /\ opExc' = "IncapableException"
            /\ UNCHANGED <<rqPc, rqReq>>
    /\ UNCHANGED <<rqRes, op, async_strategy, capabilities, clientVars,
                   rqDeadline,
                   rqExc, attempts, sleeps, rq401, rq406, pastDeadline406,
                   lastRequest, sentTo, envVars, deadline, snap, inProgSeen,
                   fetches,
                   up, down, loc,
                   most_recent_request_id>>

\* i = self.get_instance(i['uuid']) has returned: the loop holds the new
\* snapshot.
PollFetched ==
    /\ pc = "fetch_wait"
    /\ rqPc = "returned"
    /\ \E s \in Servable(op) :
        /\ snap' = s
        /\ loc' = [loc EXCEPT !.served = s]
        /\ inProgSeen' = IF InProgress(op, s) THEN inProgSeen + 1
                         ELSE inProgSeen
    /\ fetches' = fetches + 1
    /\ pc' = "check"
    /\ CallOver
    /\ UNCHANGED <<op, async_strategy, capabilities, now, clientVars,
                   lastRequest, sentTo, envVars, deadline, pollSleeps,
                   lastSleepAt, opExc, up, down, most_recent_request_id>>

NextPoll ==
    \/ NextRequest
    \/ PollPost
    \/ PollPosted
    \/ PollRaised
    \/ PollReturnState
    \/ PollReturnDeadline
    \/ PollSleep
    \/ PollFetched

\* The capability sets a server's root page may advertise.
CapabilitySets ==
    { {}, {"instance-execute"},
      {"instance-execute", "agentoperations-crud", "provide-dns"} }

\* The capability sets that make a difference to the operation.
RelevantCapabilitySets(o) ==
    {c \in CapabilitySets :
        \/ c = {"instance-execute", "agentoperations-crud", "provide-dns"}
        \/ o = "instance_execute"
        \/ o = "allocate_network" /\ c = {}}

InitPoll ==
    /\ op \in PollOps
    /\ pc = "post"
    /\ async_strategy \in Strategies
    /\ capabilities \in RelevantCapabilitySets(op)
    /\ now = 0
    /\ cached_auth \in {0, 1}
    /\ authCalls = cached_auth
    /\ base_url = "base_url"
    /\ rqPc = "idle"
    /\ rqReq = "none"
    /\ rqDeadline = 0
    /\ rqExc = "none"
    /\ rqRes = NoOutcome
    /\ attempts = 0
    /\ sleeps = 0
    /\ rq401 = 0
    /\ rq406 = 0
    /\ pastDeadline406 = FALSE
    /\ lastRequest = "none"
    /\ tot401 = 0
    /\ tot406 = 0
    /\ slow = 0
    /\ deadline = 0
    /\ snap = "none"
    /\ inProgSeen = 0
    /\ fetches = 0
    /\ pollSleeps = 0
    /\ lastSleepAt = 0
    /\ opExc = "none"
    /\ up = NoUpload
    /\ down = NoDownload
    /\ sentTo = "none"
    /\ most_recent_request_id = EarlierRequestId(cached_auth)
    /\ loc = PollLocals

SpecPoll == InitPoll /\ [][NextPoll]_vars

(***************************************************************************)
(* The deleting operations, delete_instance and delete_all_instances, and  *)
(* with them the creating ones under any interleaving of the server's      *)
(* answers (SpecDelete).                                                   *)
(***************************************************************************)
DeleteOps == {"delete_instance", "delete_all_instances"}

\* The states the server may report of an instance that is being deleted.
DeleteStates == {"created", "deleting", "deleted", "error"}

\* `i['state'] == 'deleted'`
Deleted(state) == state = "deleted"

\* What get_instance may answer in delete_all_instances: a state, or
\* nothing ("None", a falsy body).
DeleteAllAnswers == {"deleting", "deleted", "None"}

\* The answers the server may still give delete_instance, within its budget
\* of answers that keep the loop waiting.
DeleteServable ==
    {s \in DeleteStates : ~Deleted(s) => inProgSeen < MaxInProgress}

\* The answers the server may still give delete_all_instances: it keeps no
\* instance undeleted for more than MaxInProgress rounds of the loop.
DeleteAllServable ==
    {inst \in DeleteAllAnswers :
        inst = "deleting" => pollSleeps <= MaxInProgress}

\* The lists the server may report as being deleted.
DeletedLists == {<<>>, <<"a">>, <<"a", "b">>}

\* set(deleted)
SetOf(list) == {list[k] : k \in DOMAIN list}

DeleteRequest(o) ==
    IF o = "delete_instance"
    THEN "DELETE /instances/ref"
    ELSE "DELETE /instances confirm=True namespace=ns"

\* The locals of a deleting operation: the async_request argument, the
\* calls of _request_url made (counted up to two) and the requests they
\* were given, the state served last and the value returned, and for
\* delete_all_instances the list reported, the set waited for, what is left
\* of its copy in the for loop and the instance being fetched.
DeleteLocals(async_request) ==
    [op |-> "delete", async_request |-> async_request, calls |-> 0,
     requests |-> {}, served |-> "none", result |-> "none",
     deleted |-> <<>>, waiting_for |-> {}, todo |-> {}, uuid |-> "none"]

\* The operation hands a request to _request_url.
Calling(l, request) ==
    [l EXCEPT !.calls = Min(l.calls + 1, 2),
              !.requests = l.requests \cup {request}]

\* r = self._request_url('DELETE', ...)
DeleteSend ==
    /\ op \in DeleteOps
    /\ pc = "post"
    /\ pc' = "delete_wait"
    /\ rqPc' = "start"
    /\ rqReq' = DeleteRequest(op)
    /\ loc' = Calling(loc, DeleteRequest(op))
    /\ UNCHANGED <<rqRes, op, async_strategy, capabilities, now, clientVars,
                   rqDeadline, rqExc, attempts, sleeps, rq401, rq406,
                   pastDeadline406, lastRequest, sentTo, envVars, pollVars,
                   opExc, up, down, most_recent_request_id>>

\* An exception of _request_url is not caught by the operation.
DeleteRaised ==
    /\ pc \in {"delete_wait", "get_wait", "all_wait"}
    /\ rqPc = "raised"
    /\ pc' = "raised"
    /\ opExc' = rqExc
    /\ CallOver
    /\ UNCHANGED <<op, async_strategy, capabilities, now, clientVars,
                   lastRequest, sentTo, envVars, pollVars, up, down, loc,
                   most_recent_request_id>>

\* Variant: async_request is not looked at.
DeleteInstanceSentIgnoresAsync ==
    /\ op = "delete_instance"
    /\ pc = "delete_wait"
    /\ rqPc = "returned"
    /\ \E has_uuid \in BOOLEAN :
        IF ~has_uuid
        THEN /\ pc' = "returned"
             /\ loc' = [loc EXCEPT !.result = "{}"]
             /\ UNCHANGED <<deadline, opExc>>
        ELSE /\ deadline' = now + _calculate_async_deadline(async_strategy)
             /\ pc' = "get"
             /\ UNCHANGED <<loc, opExc>>
    /\ CallOver
    /\ UNCHANGED <<op, async_strategy, capabilities, now, clientVars,
                   lastRequest, sentTo, envVars, snap, inProgSeen, fetches,
                   pollSleeps, lastSleepAt, up, down, most_recent_request_id>>

\* delete_instance after its DELETE: `if async_request: return {}`, a
\* response without uuid returns {} too, else the deadline is set.
DeleteInstanceSent ==
    /\ op = "delete_instance"
    /\ pc = "delete_wait"
    /\ rqPc = "returned"
    /\ \E has_uuid \in BOOLEAN :
        IF loc.async_request \/ ~has_uuid
        THEN /\ pc' = "returned"
             /\ loc' = [loc EXCEPT !.result = "{}"]
             /\ UNCHANGED <<deadline, opExc>>
        ELSE IF StrategyKnown(async_strategy)
        THEN /\ deadline' = now + _calculate_async_deadline(async_strategy)
             /\ pc' = "get"
             /\ UNCHANGED <<loc, opExc>>
        ELSE /\ pc' = "raised"
             /\ opExc' = UnknownStrategyError
             /\ UNCHANGED <<loc, deadline>>
    /\ CallOver
    /\ UNCHANGED <<op, async_strategy, capabilities, now, clientVars,
                   lastRequest, sentTo, envVars, snap, inProgSeen, fetches,
                   pollSleeps, lastSleepAt, up, down, most_recent_request_id>>

\* i = self.get_instance(obj_uuid), up to its call of _request_url.
DeleteInstanceGet ==
    /\ op = "delete_instance"
    /\ pc = "get"
    /\ pc' = "get_wait"
    /\ rqPc' = "start"
    /\ rqReq' = "GET /instances/uuid"
    /\ loc' = Calling(loc, "GET /instances/uuid")
    /\ UNCHANGED <<rqRes, op, async_strategy, capabilities, now, clientVars,
                   rqDeadline, rqExc, attempts, sleeps, rq401, rq406,
                   pastDeadline406, lastRequest, sentTo, envVars, pollVars,
                   opExc, up, down, most_recent_request_id>>

\* Variant: the loop keeps the snapshot it had when a later one arrives.
DeleteInstanceGotKeepsFirst ==
    /\ op = "delete_instance"
    /\ pc = "get_wait"
    /\ rqPc = "returned"
    /\ \E s \in DeleteServable :
        /\ snap' = IF fetches = 0 THEN s ELSE snap
        /\ loc' = [loc EXCEPT !.served = s]
        /\ inProgSeen' = IF Deleted(s) THEN inProgSeen ELSE inProgSeen + 1
    /\ fetches' = fetches + 1
    /\ pc' = "test"
    /\ CallOver
    /\ UNCHANGED <<op, async_strategy, capabilities, now, clientVars,
                   lastRequest, sentTo, envVars, deadline, pollSleeps,
                   lastSleepAt, opExc, up, down, most_recent_request_id>>

\* get_instance has returned: the loop holds the new snapshot.
DeleteInstanceGot ==
    /\ op = "delete_instance"
    /\ pc = "get_wait"
    /\ rqPc = "returned"
    /\ \E s \in DeleteServable :
        /\ snap' = s
        /\ loc' = [loc EXCEPT !.served = s]
        /\ inProgSeen' = IF Deleted(s) THEN inProgSeen ELSE inProgSeen + 1
    /\ fetches' = fetches + 1
    /\ pc' = "test"
    /\ CallOver
    /\ UNCHANGED <<op, async_strategy, capabilities, now, clientVars,
                   lastRequest, sentTo, envVars, deadline, pollSleeps,
                   lastSleepAt, opExc, up, down, most_recent_request_id>>

\* Variant: the loop sleeps once before its first look at the clock.
DeleteInstanceTestSleepsFirst ==
    /\ op = "delete_instance"
    /\ pc = "test"
    /\ IF Deleted(snap) \/ (DeadlinePassed(now, deadline) /\ pollSleeps > 0)
       THEN /\ pc' = "returned"
            /\ loc' = [loc EXCEPT !.result = snap]
            /\ UNCHANGED <<now, pollSleeps, lastSleepAt>>
       ELSE /\ pc' = "get"
            /\ now' = now + 1
            /\ pollSleeps' = pollSleeps + 1
            /\ lastSleepAt' = now
            /\ loc' = loc
    /\ UNCHANGED <<op, async_strategy, capabilities, clientVars, rqVars,
                   lastRequest, sentTo, envVars, deadline, snap, inProgSeen,
                   fetches, opExc, up, down, most_recent_request_id>>

\* `if i['state'] == 'deleted': return i`, `if time.time() > deadline:
\* return i`, else time.sleep(1) and round again.
DeleteInstanceTest ==
    /\ op = "delete_instance"
    /\ pc = "test"
    /\ IF Deleted(snap) \/ DeadlinePassed(now, deadline)
       THEN /\ pc' = "returned"
            /\ loc' = [loc EXCEPT !.result = snap]
            /\ UNCHANGED <<now, pollSleeps, lastSleepAt>>
       ELSE /\ pc' = "get"
            /\ now' = now + 1
            /\ pollSleeps' = pollSleeps + 1
            /\ lastSleepAt' = now
            /\ loc' = loc
    /\ UNCHANGED <<op, async_strategy, capabilities, clientVars, rqVars,
                   lastRequest, sentTo, envVars, deadline, snap, inProgSeen,
                   fetches, opExc, up, down, most_recent_request_id>>

\* delete_all_instances after its DELETE: deleted = r.json(),
\* waiting_for = set(deleted), and the deadline.
DeleteAllSent ==
    /\ op = "delete_all_instances"
    /\ pc = "delete_wait"
    /\ rqPc = "returned"
    /\ IF StrategyKnown(async_strategy)
       THEN /\ \E deleted \in DeletedLists :
                 loc' = [loc EXCEPT !.deleted = deleted,
                                    !.waiting_for = SetOf(deleted)]
            /\ deadline' = now + _calculate_async_deadline(async_strategy)
            /\ pc' = "while"
            /\ opExc' = opExc
       ELSE /\ pc' = "raised"
            /\ opExc' = UnknownStrategyError
            /\ UNCHANGED <<loc, deadline>>
    /\ CallOver
    /\ UNCHANGED <<op, async_strategy, capabilities, now, clientVars,
                   lastRequest, sentTo, envVars, snap, inProgSeen, fetches,
                   pollSleeps, lastSleepAt, up, down, most_recent_request_id>>

\* Variant: the loop sleeps and fetches once before it looks at the clock.
DeleteAllWhileSleepsFirst ==
    /\ op = "delete_all_instances"
    /\ pc = "while"
    /\ IF loc.waiting_for = {}
          \/ (DeadlinePassed(now, deadline) /\ pollSleeps > 0)
       THEN /\ pc' = "returned"
            /\ loc' = [loc EXCEPT !.result = loc.deleted]
            /\ UNCHANGED <<now, pollSleeps, lastSleepAt>>
       ELSE /\ pc' = "for"
            /\ now' = now + 1
            /\ pollSleeps' = pollSleeps + 1
            /\ lastSleepAt' = now
            /\ loc' = [loc EXCEPT !.todo = loc.waiting_for]
    /\ UNCHANGED <<op, async_strategy, capabilities, clientVars, rqVars,
                   lastRequest, sentTo, envVars, deadline, snap, inProgSeen,
                   fetches, opExc, up, down, most_recent_request_id>>

\* `while waiting_for:`, `if time.time() > deadline: break`, time.sleep(1)
\* and the copy the for loop walks; after the loop, `return deleted`.
DeleteAllWhile ==
    /\ op = "delete_all_instances"
    /\ pc = "while"
    /\ IF loc.waiting_for = {} \/ DeadlinePassed(now, deadline)
       THEN /\ pc' = "returned"
            /\ loc' = [loc EXCEPT !.result = loc.deleted]
            /\ UNCHANGED <<now, pollSleeps, lastSleepAt>>
       ELSE /\ pc' = "for"
            /\ now' = now + 1
            /\ pollSleeps' = pollSleeps + 1
            /\ lastSleepAt' = now
            /\ loc' = [loc EXCEPT !.todo = loc.waiting_for]
    /\ UNCHANGED <<op, async_strategy, capabilities, clientVars, rqVars,
                   lastRequest, sentTo, envVars, deadline, snap, inProgSeen,
                   fetches, opExc, up, down, most_recent_request_id>>

\* `for uuid in copy.copy(waiting_for): inst = self.get_instance(uuid)`, up
\* to the call of _request_url; the walk over, the while loop tests again.
DeleteAllFor ==
    /\ op = "delete_all_instances"
    /\ pc = "for"
    /\ IF loc.todo = {}
       THEN /\ pc' = "while"
            /\ loc' = [loc EXCEPT !.served = "none"]
            /\ UNCHANGED <<rqPc, rqReq>>
       ELSE \E uuid \in loc.todo :
            /\ pc' = "all_wait"
            /\ rqPc' = "start"
            /\ rqReq' = "GET /instances/uuid"
            /\ loc' = [Calling(loc, "GET /instances/uuid") EXCEPT
                          !.uuid = uuid, !.todo = loc.todo \ {uuid},
                          !.served = "none"]
    /\ UNCHANGED <<rqRes, op, async_strategy, capabilities, now, clientVars,
                   rqDeadline, rqExc, attempts, sleeps, rq401, rq406,
                   pastDeadline406, lastRequest, sentTo, envVars, pollVars,
                   opExc, up, down, most_recent_request_id>>

\* Variant: the instance fetched leaves waiting_for whatever its state.
DeleteAllGotRemovesAlways ==
    /\ op = "delete_all_instances"
    /\ pc = "all_wait"
    /\ rqPc = "returned"
    /\ \E inst \in DeleteAllServable :
        loc' = [loc EXCEPT
                  !.uuid = "none",
                  !.served = inst,
                  !.waiting_for = loc.waiting_for \ {loc.uuid}]
    /\ pc' = "for"
    /\ CallOver
    /\ UNCHANGED <<op, async_strategy, capabilities, now, clientVars,
                   lastRequest, sentTo, envVars, pollVars, opExc, up, down,
                   most_recent_request_id>>

\* `if not inst or inst['state'] == 'deleted': waiting_for.remove(uuid)`;
\* `served` holds inst until the for loop goes on.
DeleteAllGot ==
    /\ op = "delete_all_instances"
    /\ pc = "all_wait"
    /\ rqPc = "returned"
    /\ \E inst \in DeleteAllServable :
        loc' = [loc EXCEPT
                  !.uuid = "none",
                  !.served = inst,
                  !.waiting_for = IF inst = "None" \/ Deleted(inst)
                                  THEN loc.waiting_for \ {loc.uuid}
                                  ELSE loc.waiting_for]
    /\ pc' = "for"
    /\ CallOver
    /\ UNCHANGED <<op, async_strategy, capabilities, now, clientVars,
                   lastRequest, sentTo, envVars, pollVars, opExc, up, down,
                   most_recent_request_id>>

NextDelete ==
    \/ NextPoll
    \/ DeleteSend
    \/ DeleteRaised
    \/ DeleteInstanceSent
    \/ DeleteInstanceGet
    \/ DeleteInstanceGot
    \/ DeleteInstanceTest
    \/ DeleteAllSent
    \/ DeleteAllWhile
    \/ DeleteAllFor
    \/ DeleteAllGot

\* A client that has made no call yet, about to run one of the deleting
\* operations or to create an instance or a network.
InitDelete ==
    /\ op \in DeleteOps \cup {"create_instance", "allocate_network"}
    /\ pc = "post"
    /\ async_strategy \in KnownStrategies
    /\ capabilities = {"provide-dns"}
    /\ now = 0
    /\ cached_auth = 0
    /\ authCalls = 0
    /\ base_url = "base_url"
    /\ rqPc = "idle"
    /\ rqReq = "none"
    /\ rqDeadline = 0
    /\ rqExc = "none"
    /\ rqRes = NoOutcome
    /\ attempts = 0
    /\ sleeps = 0
    /\ rq401 = 0
    /\ rq406 = 0
    /\ pastDeadline406 = FALSE
    /\ lastRequest = "none"
    /\ tot401 = 0
    /\ tot406 = 0
    /\ slow = 0
    /\ deadline = 0
    /\ snap = "none"
    /\ inProgSeen = 0
    /\ fetches = 0
    /\ pollSleeps = 0
    /\ lastSleepAt = 0
    /\ opExc = "none"
    /\ up = NoUpload
    /\ down = NoDownload
    /\ sentTo = "none"
    /\ most_recent_request_id = NoRequestId
    /\ \E async_request \in BOOLEAN :
        /\ loc = IF op \in DeleteOps THEN DeleteLocals(async_request)
                 ELSE PollLocals
        /\ op # "delete_instance" => ~async_request

SpecDelete == InitDelete /\ [][NextDelete]_vars

(***************************************************************************)
(* snapshot_instance (SpecSnapshot): the snapshot request, the wait for    *)
(* the blobs, then the label.  The server may keep a blob uncreated for as *)
(* long as the loop waits: the deadline bounds the loop.                   *)
(***************************************************************************)
\* The devices the server may report a snapshot of (r.json(), a dictionary
\* by device); the blob of a device is named after it.
SnapshotOuts == {{}, {"vda"}, {"vda", "vdb"}}

\* The `device` arguments: None, a device of the instance, and one the
\* answer does not hold.
DeviceArguments == {"None", "vda", "vdz"}

\* `async_strategy = self.async_strategy; if label_name: async_strategy =
\* ASYNC_BLOCK`
WaitStrategy(label_name, strategy) ==
    IF label_name THEN ASYNC_BLOCK ELSE strategy

\* The locals of snapshot_instance: the label_name argument (given or not),
\* the devices of `out`, waiting_for, the strategy of the wait, the blob
\* the label was asked for ("none": no label request was made), whether
\* out['label'] is set and whether the artifact was deleted.
SnapshotLocals(label_name) ==
    [op |-> "snapshot", label_name |-> label_name, out |-> {},
     waiting_for |-> {}, strategy |-> "none", labelled |-> "none",
     label |-> FALSE, deleted |-> FALSE]

\* r = self._request_url('POST', '/instances/<ref>/snapshot', ...)
SnapshotPost ==
    /\ op = "snapshot_instance"
    /\ pc = "post"
    /\ pc' = "snapshot_wait"
    /\ rqPc' = "start"
    /\ rqReq' = "POST /instances/ref/snapshot"
    /\ UNCHANGED <<rqRes, op, async_strategy, capabilities, now, clientVars,
                   rqDeadline, rqExc, attempts, sleeps, rq401, rq406,
                   pastDeadline406, lastRequest, sentTo, envVars, pollVars,
                   opExc, up, down, loc, most_recent_request_id>>

\* An exception of _request_url is not caught by the operation.
SnapshotRaised ==
    /\ pc \in {"snapshot_wait", "snaps_wait", "label_wait", "artifact_wait"}
    /\ rqPc = "raised"
    /\ pc' = "raised"
    /\ opExc' = rqExc
    /\ CallOver
    /\ UNCHANGED <<op, async_strategy, capabilities, now, clientVars,
                   lastRequest, sentTo, envVars, pollVars, up, down, loc,
                   most_recent_request_id>>

\* out = r.json(), waiting_for = the blobs of out, the strategy of the wait
\* and the deadline.
SnapshotPosted ==
    /\ pc = "snapshot_wait"
    /\ rqPc = "returned"
    /\ \E out \in SnapshotOuts :
        LET strategy == WaitStrategy(loc.label_name, async_strategy) IN
        IF StrategyKnown(strategy)
        THEN /\ loc' = [loc EXCEPT !.out = out, !.waiting_for = out,
                                   !.strategy = strategy]
             /\ deadline' = now + _calculate_async_deadline(strategy)
             /\ pc' = "while"
             /\ opExc' = opExc
        ELSE /\ pc' = "raised"
             /\ opExc' = UnknownStrategyError
             /\ UNCHANGED <<loc, deadline>>
    /\ CallOver
    /\ UNCHANGED <<op, async_strategy, capabilities, now, clientVars,
                   lastRequest, sentTo, envVars, snap, inProgSeen, fetches,
                   pollSleeps, lastSleepAt, up, down, most_recent_request_id>>

\* `while waiting_for:`, `if time.time() > deadline: break`, time.sleep(1)
\* and get_instance_snapshots up to its call of _request_url.
SnapshotWhile ==
    /\ pc = "while"
    /\ IF loc.waiting_for = {} \/ DeadlinePassed(now, deadline)
       THEN /\ pc' = "after"
            /\ UNCHANGED <<now, pollSleeps, lastSleepAt, rqPc, rqReq>>
       ELSE /\ now' = now + 1
            /\ pollSleeps' = pollSleeps + 1
            /\ lastSleepAt' = now
            /\ pc' = "snaps_wait"
            /\ rqPc' = "start"
            /\ rqReq' = "GET /instances/ref/snapshot"
    /\ UNCHANGED <<rqRes, op, async_strategy, capabilities, clientVars,
                   rqDeadline, rqExc, attempts, sleeps, rq401, rq406,
                   pastDeadline406, lastRequest, sentTo, envVars, deadline,
                   snap, inProgSeen, fetches, opExc, up, down, loc,
                   most_recent_request_id>>

\* `for s in snaps:` every blob waited for that the list shows in state
\* 'created' leaves waiting_for.  A blob the server has not created by its
\* first lists stays uncreated as long as the loop asks.
SnapshotFetched ==
    /\ pc = "snaps_wait"
    /\ rqPc = "returned"
    /\ \E created \in SUBSET loc.waiting_for :
        /\ created # {} => fetches < MaxCreatingLists
        /\ loc' = [loc EXCEPT !.waiting_for = loc.waiting_for \ created]
    /\ fetches' = fetches + 1
    /\ pc' = "while"
    /\ CallOver
    /\ UNCHANGED <<op, async_strategy, capabilities, now, clientVars,
                   lastRequest, sentTo, envVars, deadline, snap, inProgSeen,
                   pollSleeps, lastSleepAt, opExc, up, down,
                   most_recent_request_id>>

\* After the loop: `if not all and label_name:` the device defaults to the
\* first key of out and update_label is called for its blob; else `return
\* out`.  `all` and `device` are arguments; they are used here first.
SnapshotAfter ==
    /\ pc = "after"
    /\ \E all \in BOOLEAN, device \in DeviceArguments :
        IF all \/ ~loc.label_name
        THEN /\ pc' = "returned"
             /\ UNCHANGED <<loc, opExc, rqPc, rqReq>>
        ELSE IF device = "None" /\ loc.out = {}
        THEN /\ pc' = "raised"
             /\ opExc' = "IndexError"
             /\ UNCHANGED <<loc, rqPc, rqReq>>
        ELSE IF device # "None" /\ device \notin loc.out
        THEN /\ pc' = "raised"
             /\ opExc' = "KeyError"
             /\ UNCHANGED <<loc, rqPc, rqReq>>
        ELSE /\ \E first \in loc.out :
                  loc' = [loc EXCEPT !.labelled =
                             IF device = "None" THEN first ELSE device]
             /\ pc' = "label_wait"
             /\ rqPc' = "start"
             /\ rqReq' = "POST /label/name"
             /\ opExc' = opExc
    /\ UNCHANGED <<rqRes, op, async_strategy, capabilities, now, clientVars,
                   rqDeadline, rqExc, attempts, sleeps, rq401, rq406,
                   pastDeadline406, lastRequest, sentTo, envVars, pollVars,
                   up, down, most_recent_request_id>>

\* out['label'] = the answer; `if delete_snapshot_after_label:` the
\* artifact is deleted, else `return out`.
SnapshotLabelled ==
    /\ pc = "label_wait"
    /\ rqPc = "returned"
    /\ loc' = [loc EXCEPT !.label = TRUE]
    /\ \E delete_snapshot_after_label \in BOOLEAN :
        pc' = IF delete_snapshot_after_label THEN "artifact" ELSE "returned"
    /\ CallOver
    /\ UNCHANGED <<op, async_strategy, capabilities, now, clientVars,
                   lastRequest, sentTo, envVars, pollVars, opExc, up, down,
                   most_recent_request_id>>

\* self.delete_artifact(out[device]['artifact_uuid']), up to its call of
\* _request_url.
SnapshotDeleteArtifact ==
    /\ pc = "artifact"
    /\ pc' = "artifact_wait"
    /\ rqPc' = "start"
    /\ rqReq' = "DELETE /artifacts/uuid"
    /\ UNCHANGED <<rqRes, op, async_strategy, capabilities, now, clientVars,
                   rqDeadline, rqExc, attempts, sleeps, rq401, rq406,
                   pastDeadline406, lastRequest, sentTo, envVars, pollVars,
                   opExc, up, down, loc, most_recent_request_id>>

\* The artifact is deleted: `return out`.
SnapshotArtifactDeleted ==
    /\ pc = "artifact_wait"
    /\ rqPc = "returned"
    /\ loc' = [loc EXCEPT !.deleted = TRUE]
    /\ pc' = "returned"
    /\ CallOver
    /\ UNCHANGED <<op, async_strategy, capabilities, now, clientVars,
                   lastRequest, sentTo, envVars, pollVars, opExc, up, down,
                   most_recent_request_id>>

NextSnapshot ==
    \/ NextRequest
    \/ SnapshotPost
    \/ SnapshotRaised
    \/ SnapshotPosted
    \/ SnapshotWhile
    \/ SnapshotFetched
    \/ SnapshotAfter
    \/ SnapshotLabelled
    \/ SnapshotDeleteArtifact
    \/ SnapshotArtifactDeleted

\* A client that has made no call yet, about to run snapshot_instance.
InitSnapshot ==
    /\ op = "snapshot_instance"
    /\ pc = "post"
    /\ async_strategy \in {ASYNC_CONTINUE, ASYNC_PAUSE}
    /\ capabilities = {}
    /\ now = 0
    /\ cached_auth = 0
    /\ authCalls = 0
    /\ base_url = "base_url"
    /\ rqPc = "idle"
    /\ rqReq = "none"
    /\ rqDeadline = 0
    /\ rqExc = "none"
    /\ rqRes = NoOutcome
    /\ attempts = 0
    /\ sleeps = 0
    /\ rq401 = 0
    /\ rq406 = 0
    /\ pastDeadline406 = FALSE
    /\ lastRequest = "none"
    /\ tot401 = 0
    /\ tot406 = 0
    /\ slow = 0
    /\ deadline = 0
    /\ snap = "none"
    /\ inProgSeen = 0
    /\ fetches = 0
    /\ pollSleeps = 0
    /\ lastSleepAt = 0
    /\ opExc = "none"
    /\ up = NoUpload
    /\ down = NoDownload
    /\ sentTo = "none"
    /\ most_recent_request_id = NoRequestId
    /\ \E label_name \in BOOLEAN : loc = SnapshotLocals(label_name)

SpecSnapshot == InitSnapshot /\ [][NextSnapshot]_vars

(***************************************************************************)
(* await_instance_create (SpecAwait).  A state name is the sequence of its *)
(* words, which the name joins with '-': 'creating-error' is               *)
(* <<"creating", "error">>, 'error' is <<"error">>.                        *)
(***************************************************************************)
AwaitSleepSeconds == 5

\* The `timeout` arguments: none at all, one sleep, and the default.
AwaitTimeouts == {0, 5, 600}

\* The states get_instance may show.
AwaitStates ==
    {<<"creating">>, <<"created">>, <<"error">>, <<"creating", "error">>}

\* No get_instance has answered: the name `i` is not bound.
Unbound == <<>>

\* i['state'] in ['created', 'error']
FinalState(state) == state \in {<<"created">>, <<"error">>}

\* i['state'].endswith('-error'): a '-' and then the last word 'error'.
EndsWithError(state) == Len(state) >= 2 /\ state[Len(state)] = "error"

\* The locals of await_instance_create: timeout, start_time, final, the
\* state of `i`, and, to state its properties, the get_instance calls made,
\* the sleeps made, whether a call began with the timeout elapsed and
\* whether the code after the loop was reached.
AwaitLocals(timeout) ==
    [op |-> "await", timeout |-> timeout, start_time |-> 0, final |-> FALSE,
     i |-> Unbound, gets |-> 0, slept |-> 0, late |-> FALSE,
     after |-> FALSE]

\* `while time.time() - start_time < timeout:` and get_instance up to its
\* call of _request_url.
AwaitWhile ==
    /\ op = "await_instance_create"
    /\ pc = "while"
    /\ IF now - loc.start_time < loc.timeout
       THEN /\ pc' = "get_wait"
            /\ rqPc' = "start"
            /\ rqReq' = "GET /instances/uuid"
            /\ loc' = [loc EXCEPT !.gets = @ + 1]
       ELSE /\ pc' = "after"
            /\ UNCHANGED <<rqPc, rqReq, loc>>
    /\ UNCHANGED <<rqRes, op, async_strategy, capabilities, now, clientVars,
                   rqDeadline, rqExc, attempts, sleeps, rq401, rq406,
                   pastDeadline406, lastRequest, sentTo, envVars, pollVars,
                   opExc, up, down, most_recent_request_id>>

\* An exception of get_instance is not caught.
AwaitRaised ==
    /\ pc = "get_wait"
    /\ rqPc = "raised"
    /\ pc' = "raised"
    /\ opExc' = rqExc
    /\ CallOver
    /\ UNCHANGED <<op, async_strategy, capabilities, now, clientVars,
                   lastRequest, sentTo, envVars, pollVars, up, down, loc,
                   most_recent_request_id>>

\* i = the instance; `if i['state'] in ['created', 'error']: final = True;
\* break`, else time.sleep(5).
AwaitGot ==
    /\ pc = "get_wait"
    /\ rqPc = "returned"
    /\ \E state \in AwaitStates :
        IF FinalState(state)
        THEN /\ loc' = [loc EXCEPT !.i = state, !.final = TRUE]
             /\ pc' = "after"
             /\ now' = now
        ELSE /\ loc' = [loc EXCEPT !.i = state, !.slept = @ + 1]
             /\ pc' = "while"
             /\ now' = now + AwaitSleepSeconds
    /\ CallOver
    /\ UNCHANGED <<op, async_strategy, capabilities, clientVars, lastRequest,
                   sentTo, envVars, pollVars, opExc, up, down,
                   most_recent_request_id>>

\* After the loop: `if i['state'].endswith('-error'): raise
\* InstanceWillNeverBeReady`, `if not final: raise TimeoutException`.  With
\* no pass of the loop `i` is not bound.
AwaitAfter ==
    /\ pc = "after"
    /\ loc' = [loc EXCEPT !.after = TRUE]
    /\ IF loc.i = Unbound
       THEN pc' = "raised" /\ opExc' = "UnboundLocalError"
       ELSE IF EndsWithError(loc.i)
       THEN pc' = "raised" /\ opExc' = "InstanceWillNeverBeReady"
       ELSE IF ~loc.final
       THEN pc' = "raised" /\ opExc' = "TimeoutException"
       ELSE pc' = "returned" /\ opExc' = opExc
    /\ UNCHANGED <<op, async_strategy, capabilities, now, clientVars, rqVars,
                   lastRequest, sentTo, envVars, pollVars, up, down,
                   most_recent_request_id>>

NextAwait ==
    \/ NextRequest
    \/ AwaitWhile
    \/ AwaitRaised
    \/ AwaitGot
    \/ AwaitAfter

\* A client that has made no call yet, about to run await_instance_create;
\* start_time = time.time().
InitAwait ==
    /\ op = "await_instance_create"
    /\ pc = "while"
    /\ async_strategy \in KnownStrategies
    /\ capabilities = {}
    /\ now = 0
    /\ cached_auth = 0
    /\ authCalls = 0
    /\ base_url = "base_url"
    /\ rqPc = "idle"
    /\ rqReq = "none"
    /\ rqDeadline = 0
    /\ rqExc = "none"
    /\ rqRes = NoOutcome
    /\ attempts = 0
    /\ sleeps = 0
    /\ rq401 = 0
    /\ rq406 = 0
    /\ pastDeadline406 = FALSE
    /\ lastRequest = "none"
    /\ tot401 = 0
    /\ tot406 = 0
    /\ slow = 0
    /\ deadline = 0
    /\ snap = "none"
    /\ inProgSeen = 0
    /\ fetches = 0
    /\ pollSleeps = 0
    /\ lastSleepAt = 0
    /\ opExc = "none"
    /\ up = NoUpload
    /\ down = NoDownload
    /\ sentTo = "none"
    /\ most_recent_request_id = NoRequestId
    /\ \E timeout \in AwaitTimeouts : loc = AwaitLocals(timeout)

SpecAwait == InitAwait /\ [][NextAwait]_vars

(***************************************************************************)
(* A client's life (SpecSession): Client.__init__, then calls of one of    *)
(* the operations that test a capability and make a single request.        *)
(***************************************************************************)
MaxCalls == 2        \* calls a client makes after its construction

\* The operations that test a capability, send one request and return.
SimpleGatedOps ==
    {"_get_events", "get_instance", "get_instance_agentoperations",
     "add_instance_interface", "upload_artifact", "get_network",
     "get_network_addresses", "route_network_address",
     "unroute_network_address", "update_network_dns_entry",
     "delete_network_dns_entry", "get_node", "get_node_process_metrics",
     "get_agent_operation", "delete_agent_operation", "get_cluster_cacert"}

\* The operations that test a capability and go on after their first
\* request (to get_blob_data's stream or to _await_agentop).
ContinuedGatedOps ==
    {"get_blob_data", "get_screenshot", "instance_put_blob", "instance_get"}

GatedOps == SimpleGatedOps \cup ContinuedGatedOps

\* The capability strings the operation tests before it sends anything.
\* `flag` is the argument some tests depend on: an event filter (event_type
\* or limit), a namespace, all=True, an artifact type other than 'image', a
\* non-zero limit.
Gates(o, flag) ==
    CASE o = "_get_events" ->
            IF flag THEN {"events-by-type"} ELSE {}
      [] o = "get_instance" ->
            IF flag THEN {"get-instance-namespace"} ELSE {}
      [] o = "get_instance_agentoperations" ->
            IF flag
            THEN {"instance-agentoperations", "instance-agentoperations-all"}
            ELSE {"instance-agentoperations"}
      [] o = "add_instance_interface" -> {"hot-plug-interface"}
      [] o = "upload_artifact" ->
            IF flag THEN {"artifact-upload-types"} ELSE {}
      [] o = "get_blob_data" ->
            IF flag THEN {"blob-data-limit"} ELSE {}
      [] o = "get_network" ->
            IF flag THEN {"get-network-namespace"} ELSE {}
      [] o = "get_network_addresses" -> {"list-addresses"}
      [] o = "route_network_address" -> {"route-addresses"}
      [] o = "unroute_network_address" -> {"route-addresses"}
      [] o = "update_network_dns_entry" -> {"extra-dns-entries"}
      [] o = "delete_network_dns_entry" -> {"extra-dns-entries"}
      [] o = "get_node" -> {"node-get"}
      [] o = "get_node_process_metrics" -> {"node-process-metrics"}
      [] o = "get_screenshot" -> {"instance-screenshot"}
      [] o = "instance_put_blob" -> {"instance-put-blob"}
      [] o = "instance_get" -> {"instance-get"}
      [] o = "get_agent_operation" -> {"agentoperations-crud"}
      [] o = "delete_agent_operation" -> {"agentoperations-crud"}
      [] o = "get_cluster_cacert" -> {"cluster-cacert"}

\* The request the operation hands to _request_url.
GatedRequest(o) ==
    CASE o = "_get_events" -> "GET /instances/ref/events"
      [] o = "get_instance" -> "GET /instances/ref"
      [] o = "get_instance_agentoperations" ->
            "GET /instances/ref/agentoperations"
      [] o = "add_instance_interface" -> "POST /instances/ref/interfaces"
      [] o = "upload_artifact" -> "POST /artifacts/upload/name"
      [] o = "get_blob_data" -> "GET /blobs/uuid/data"
      [] o = "get_network" -> "GET /networks/ref"
      [] o = "get_network_addresses" -> "GET /networks/ref/addresses"
      [] o = "route_network_address" -> "POST /networks/ref/route"
      [] o = "unroute_network_address" -> "DELETE /networks/ref/route/address"
      [] o = "update_network_dns_entry" -> "POST /networks/ref/dns"
      [] o = "delete_network_dns_entry" -> "DELETE /networks/ref/dns/name"
      [] o = "get_node" -> "GET /nodes/node"
      [] o = "get_node_process_metrics" -> "GET /nodes/node/processmetrics"
      [] o = "get_screenshot" -> "GET /instances/ref/screenshot"
      [] o = "instance_put_blob" -> "POST /instances/ref/agent/put"
      [] o = "instance_get" -> "POST /instances/ref/agent/get"
      [] o = "get_agent_operation" -> "GET /agentoperations/uuid"
      [] o = "delete_agent_operation" -> "DELETE /agentoperations/uuid"
      [] o = "get_cluster_cacert" -> "GET /admin/cacert"

\* Variant: check_capability answers True whatever the root page holds.
check_capabilityAlwaysTrue(capability_string) == TRUE

\* Client.check_capability: `capability_string in self.root_html`.
\* `capabilities` holds every capability string that occurs in the page.
check_capability(capability_string) == capability_string \in capabilities

\* The root pages a server may answer the constructor with: for each tested
\* string, a page without it and a page with it (a page that holds
\* 'instance-agentoperations-all' holds 'instance-agentoperations').
RootPages(o) ==
    {{}} \cup {Gates(o, flag) : flag \in BOOLEAN}
         \cup {{c} : c \in Gates(o, TRUE) \ {"instance-agentoperations-all"}}

\* The locals of a client's life: the calls made so far and the argument
\* of the latest.
SessionLocals(calls, flag) == [op |-> "session", calls |-> calls, flag |-> flag]

\* Client.__init__: the attributes are set, the root page is fetched through
\* the session (not through _actual_request_url) and kept as root_html.
Construct ==
    /\ pc = "unbuilt"
    /\ most_recent_request_id' = NoRequestId
    /\ base_url' = "base_url"
    /\ cached_auth' = 0
    /\ lastRequest' = "GET base_url"
    /\ sentTo' = "base_url"
    /\ capabilities' \in RootPages(op)
    /\ pc' = "ready"
    /\ UNCHANGED <<op, async_strategy, now, authCalls, rqVars, envVars,
                   pollVars, opExc, up, down, loc>>

\* A call of the operation: its capability tests, then its _request_url.
\* (What a continued operation does after its tests pass is modelled with
\* the polling loops and the downloads, not here.)
SessionCall ==
    /\ pc = "ready"
    /\ loc.calls < MaxCalls
    /\ \E flag \in BOOLEAN :
        /\ loc' = SessionLocals(loc.calls + 1, flag)
        /\ IF \A c \in Gates(op, flag) : check_capability(c)
           THEN /\ op \in SimpleGatedOps
                /\ pc' = "call_wait"
                /\ rqPc' = "start"
                /\ rqReq' = GatedRequest(op)
                /\ opExc' = "none"
           ELSE /\ pc' = "ready"
                /\ opExc' = "IncapableException"
                /\ UNCHANGED <<rqPc, rqReq>>
    /\ UNCHANGED <<rqRes, op, async_strategy, capabilities, now, clientVars,
                   rqDeadline, rqExc, attempts, sleeps, rq401, rq406,
                   pastDeadline406, lastRequest, sentTo, envVars, pollVars,
                   up, down, most_recent_request_id>>

\* _request_url has returned: so does the operation.
SessionReturned ==
    /\ pc = "call_wait"
    /\ rqPc = "returned"
    /\ pc' = "ready"
    /\ CallOver
    /\ UNCHANGED <<op, async_strategy, capabilities, now, clientVars,
                   lastRequest, sentTo, envVars, pollVars, opExc, up, down,
                   loc, most_recent_request_id>>

\* An exception of _request_url is not caught by the operation; the client
\* stays usable.
SessionRaised ==
    /\ pc = "call_wait"
    /\ rqPc = "raised"
    /\ pc' = "ready"
    /\ opExc' = rqExc
    /\ CallOver
    /\ UNCHANGED <<op, async_strategy, capabilities, now, clientVars,
                   lastRequest, sentTo, envVars, pollVars, up, down, loc,
                   most_recent_request_id>>

NextSession ==
    \/ NextRequest
    \/ Construct
    \/ SessionCall
    \/ SessionReturned
    \/ SessionRaised

\* Before Client.__init__ has run: the attributes hold nothing yet.
InitSession ==
    /\ op \in GatedOps
    /\ pc = "unbuilt"
    /\ async_strategy \in KnownStrategies
    /\ capabilities = {}
    /\ now = 0
    /\ cached_auth = 0
    /\ authCalls = 0
    /\ base_url = "none"
    /\ rqPc = "idle"
    /\ rqReq = "none"
    /\ rqDeadline = 0
    /\ rqExc = "none"
    /\ rqRes = NoOutcome
    /\ attempts = 0
    /\ sleeps = 0
    /\ rq401 = 0
    /\ rq406 = 0
    /\ pastDeadline406 = FALSE
    /\ lastRequest = "none"
    /\ tot401 = 0
    /\ tot406 = 0
    /\ slow = 0
    /\ deadline = 0
    /\ snap = "none"
    /\ inProgSeen = 0
    /\ fetches = 0
    /\ pollSleeps = 0
    /\ lastSleepAt = 0
    /\ opExc = "none"
    /\ up = NoUpload
    /\ down = NoDownload
    /\ sentTo = "none"
    /\ most_recent_request_id = NoRequestId
    /\ loc = SessionLocals(0, FALSE)

SpecSession == InitSession /\ [][NextSession]_vars

(***************************************************************************)
(* The chunked upload engines: Client.send_upload_file ("client") and      *)
(* util.upload_artifact_with_progress_file_like_object ("util").           *)
(* The source's bytes are named by their offsets, so a content is a        *)
(* sequence of ranges <<a, b>> of source offsets (a inclusive, b           *)
(* exclusive), adjacent ranges merged: the sink equals the source exactly  *)
(* when it is the one range <<0, size>>.                                   *)
(***************************************************************************)
MaxChunks == 2       \* the largest source is MaxChunks * 4096 + 1 bytes

InitialBufferSize == 4096
MinBufferSize == 4 * 1024
MaxBufferSize == 2 * 1024 * 1024
TargetSeconds == 3
MaxRetries == 5

Engines == {"client", "util"}

SourceSizes == {0, 1, 4095, 4096, 4097, MaxChunks * 4096 + 1}

\* Elapsed times are counted in ticks of 1/64 second (exact as floats).
TicksPerSecond == 64

\* time.time() - start_time, in ticks: zero, one tick, half the target, the
\* target, twice the target, huge, and negative (the wall clock was set back
\* during the send).
ElapsedTicks == {0, 1, 96, 192, 384, 64000000, -64}

\* Python's int() of the quotient num / den (den # 0): truncation towards 0.
PyIntDiv(num, den) ==
    LET n == IF num < 0 THEN -num ELSE num
        d == IF den < 0 THEN -den ELSE den
        q == n \div d
    IN IF (num < 0) = (den < 0) THEN q ELSE -q

\* buffer_size = int(buffer_size * 3.0 / elapsed), then max(4 KiB, .), then
\* min(2 MiB, .); elapsed # 0.
NextBufferSize(buffer_size, elapsedTicks) ==
    Min(MaxBufferSize,
        Max(MinBufferSize,
            PyIntDiv(buffer_size * TargetSeconds * TicksPerSecond,
                     elapsedTicks)))

\* The content source[a .. b).
Range(a, b) == IF a >= b THEN <<>> ELSE << <<a, b>> >>

\* The number of bytes of a content.
RECURSIVE ContentLen(_)
ContentLen(c) ==
    IF c = <<>> THEN 0 ELSE (c[1][2] - c[1][1]) + ContentLen(Tail(c))

\* The content c followed by source[a .. b).
ContentAppend(c, a, b) ==
    IF a >= b THEN c
    ELSE IF c # <<>> /\ c[Len(c)][2] = a
         THEN [c EXCEPT ![Len(c)] = <<c[Len(c)][1], b>>]
         ELSE Append(c, <<a, b>>)

\* The first n bytes of a content (the server's truncate of an upload).
RECURSIVE ContentTruncate(_, _)
ContentTruncate(c, n) ==
    IF c = <<>> \/ n <= 0 THEN <<>>
    ELSE LET l == c[1][2] - c[1][1] IN
         IF l >= n THEN << <<c[1][1], c[1][1] + n>> >>
         ELSE << c[1] >> \o ContentTruncate(Tail(c), n - l)

\* How much of a failed chunk of length n the sink may have kept.
KeptOfFailedChunk(n) == {0, 1, n \div 2, n} \cap (0 .. n)

\* The engine u after upload = client.create_upload() (util; `ok`: the call
\* succeeds), buffer_size = 4096, total = 0, retries = 0.
EngineStart(u, ok) ==
    IF u.engine = "util" /\ ~ok
    THEN [u EXCEPT !.pc = "raised", !.exc = "APIException",
                   !.failedCall = "create_upload"]
    ELSE [u EXCEPT !.pc = "read",
                   !.buffer_size = InitialBufferSize,
                   !.total = 0,
                   !.retries = 0]

\* upload = client.create_upload() (util), then buffer_size = 4096,
\* total = 0, retries = 0.  send_upload_file is handed an upload that exists.
UploadStart ==
    /\ up.pc = "start"
    /\ \E ok \in BOOLEAN :
        /\ up.engine = "client" => ok
        /\ up' = EngineStart(up, ok)
    /\ UNCHANGED <<op, pc, async_strategy, capabilities, now, clientVars,
                   rqVars, lastRequest, sentTo, envVars, pollVars, opExc,
                   down, loc,
                   most_recent_request_id>>

\* The engine u after d = flo.read(buffer_size) and the loop test on d.
EngineRead(u) ==
    LET n == Min(u.buffer_size, u.size - u.pos) IN
    [u EXCEPT !.d = <<u.pos, u.pos + n>>,
              !.pos = u.pos + n,
              !.pc = IF n = 0 THEN "finish" ELSE "send"]

\* d = flo.read(buffer_size) and the loop test on d.
UploadRead ==
    /\ up.pc = "read"
    /\ up' = EngineRead(up)
    /\ UNCHANGED <<op, pc, async_strategy, capabilities, now, clientVars,
                   rqVars, lastRequest, sentTo, envVars, pollVars, opExc,
                   down, loc,
                   most_recent_request_id>>

\* Variant: a successful chunk does not reset retries.
AfterSendKeepsRetries(u, remote_total, elapsed) ==
    IF elapsed = 0
    THEN [u EXCEPT !.remote_total = remote_total,
                   !.pc = "raised",
                   !.exc = "ZeroDivisionError"]
    ELSE LET t == u.total + (u.d[2] - u.d[1]) IN
         [u EXCEPT !.remote_total = remote_total,
                   !.buffer_size = NextBufferSize(u.buffer_size, elapsed),
                   !.total = t,
                   !.pc = IF u.engine = "util" /\ t # remote_total
                          THEN "exited" ELSE "read",
                   !.exc = IF u.engine = "util" /\ t # remote_total
                           THEN "SystemExit" ELSE u.exc]

\* The state after send_upload returned remote_total and the chunk took
\* elapsed ticks: retries = 0, the new buffer size, total += len(d),
\* and in util the comparison of total with remote_total.
AfterSend(u, remote_total, elapsed) ==
    IF elapsed = 0
    THEN [u EXCEPT !.retries = 0,
                   !.remote_total = remote_total,
                   !.pc = "raised",
                   !.exc = "ZeroDivisionError"]
    ELSE LET t == u.total + (u.d[2] - u.d[1]) IN
         [u EXCEPT !.retries = 0,
                   !.remote_total = remote_total,
                   !.buffer_size = NextBufferSize(u.buffer_size, elapsed),
                   !.total = t,
                   !.pc = IF u.engine = "util" /\ t # remote_total
                          THEN "exited" ELSE "read",
                   !.exc = IF u.engine = "util" /\ t # remote_total
                           THEN "SystemExit" ELSE u.exc]

\* The engine u after a send_upload that succeeds.  The server stores the
\* chunk and answers with its running total; `twice`: the chunk reached the
\* server twice (the transport primitive re-sends a request whose connection
\* broke).
EngineSendOk(u, elapsed, twice) ==
    LET once == ContentAppend(u.sink, u.d[1], u.d[2])
        stored == IF twice
                  THEN ContentAppend(once, u.d[1], u.d[2])
                  ELSE once
        sent == [u EXCEPT !.sink = stored,
                          !.sends = u.sends + 1,
                          !.consecutive = 0,
                          !.duplicated = u.duplicated \/ twice,
                          !.mismatch =
                              \/ u.mismatch
                              \/ u.total + (u.d[2] - u.d[1])
                                   # ContentLen(stored),
                          !.zeroElapsed = (elapsed = 0)]
    IN AfterSend(sent, ContentLen(stored), elapsed)

\* send_upload succeeds.
UploadSendOk ==
    /\ up.pc = "send"
    /\ \E elapsed \in ElapsedTicks, twice \in BOOLEAN :
        up' = EngineSendOk(up, elapsed, twice)
    /\ UNCHANGED <<op, pc, async_strategy, capabilities, now, clientVars,
                   rqVars, lastRequest, sentTo, envVars, pollVars, opExc,
                   down, loc,
                   most_recent_request_id>>

\* The state after send_upload raised APIException: retries += 1, then
\* either `raise e` or on to the truncate.
AfterSendFailure(u) ==
    IF u.retries + 1 > MaxRetries
    THEN [u EXCEPT !.retries = u.retries + 1,
                   !.pc = "raised",
                   !.exc = "APIException"]
    ELSE [u EXCEPT !.retries = u.retries + 1,
                   !.pc = "truncate"]

\* The engine u after a send_upload that raises an APIException, the sink
\* having kept `kept` bytes of the chunk.
EngineSendApiError(u, kept) ==
    AfterSendFailure(
        [u EXCEPT !.sink = ContentAppend(u.sink, u.d[1], u.d[1] + kept),
                  !.sends = u.sends + 1,
                  !.consecutive = u.consecutive + 1])

\* send_upload raises an APIException; the sink kept part of the chunk.
UploadSendApiError ==
    /\ up.pc = "send"
    /\ \E kept \in KeptOfFailedChunk(up.d[2] - up.d[1]) :
        up' = EngineSendApiError(up, kept)
    /\ UNCHANGED <<op, pc, async_strategy, capabilities, now, clientVars,
                   rqVars, lastRequest, sentTo, envVars, pollVars, opExc,
                   down, loc,
                   most_recent_request_id>>

\* The engine u after a send_upload that raises an exception other than
\* APIException, the sink having kept `kept` bytes of the chunk.
EngineSendConnectionError(u, kept) ==
    [u EXCEPT !.sink = ContentAppend(u.sink, u.d[1], u.d[1] + kept),
              !.sends = u.sends + 1,
              !.pc = "raised",
              !.exc = "ConnectionError"]

\* send_upload raises an exception that is not an APIException (the second
\* ConnectionError of the transport primitive): no handler catches it.
UploadSendConnectionError ==
    /\ up.pc = "send"
    /\ \E kept \in KeptOfFailedChunk(up.d[2] - up.d[1]) :
        up' = EngineSendConnectionError(up, kept)
    /\ UNCHANGED <<op, pc, async_strategy, capabilities, now, clientVars,
                   rqVars, lastRequest, sentTo, envVars, pollVars, opExc,
                   down, loc,
                   most_recent_request_id>>

\* Variant: a failed truncate is passed over and the loop goes on.
EngineTruncateFailureIgnored(u, ok) ==
    IF ok
    THEN [u EXCEPT !.sink = ContentTruncate(u.sink, u.total),
                   !.truncates = u.truncates + 1,
                   !.pos = u.total,
                   !.buffer_size = InitialBufferSize,
                   !.pc = "read"]
    ELSE [u EXCEPT !.failedCall = "truncate_upload",
                   !.pos = u.total,
                   !.buffer_size = InitialBufferSize,
                   !.pc = "read"]

\* The engine u after truncate_upload(uuid, total) (`ok`: it succeeds),
\* flo.seek(total) and buffer_size = 4096.
EngineTruncate(u, ok) ==
    IF ok
    THEN [u EXCEPT !.sink = ContentTruncate(u.sink, u.total),
                   !.truncates = u.truncates + 1,
                   !.pos = u.total,
                   !.buffer_size = InitialBufferSize,
                   !.pc = "read"]
    ELSE [u EXCEPT !.failedCall = "truncate_upload",
                   !.pc = "raised",
                   !.exc = "APIException"]

\* truncate_upload(uuid, total); flo.seek(total); buffer_size = 4096.  A
\* failing truncate raises out of the except clause.
UploadTruncate ==
    /\ up.pc = "truncate"
    /\ \E ok \in BOOLEAN : up' = EngineTruncate(up, ok)
    /\ UNCHANGED <<op, pc, async_strategy, capabilities, now, clientVars,
                   rqVars, lastRequest, sentTo, envVars, pollVars, opExc,
                   down, loc,
                   most_recent_request_id>>

\* The engine u once the reader is exhausted: util creates the artifact
\* from the upload (`ok`: the call succeeds), send_upload_file returns.
EngineFinish(u, ok) ==
    IF u.engine = "util"
    THEN IF ok
         THEN [u EXCEPT !.artifact = TRUE, !.pc = "done"]
         ELSE [u EXCEPT !.pc = "raised", !.exc = "APIException",
                        !.failedCall = "upload_artifact"]
    ELSE [u EXCEPT !.pc = "done"]

\* The reader is exhausted: util creates the artifact from the upload,
\* send_upload_file returns.
UploadFinish ==
    /\ up.pc = "finish"
    /\ \E ok \in BOOLEAN :
        /\ up.engine = "client" => ok
        /\ up' = EngineFinish(up, ok)
    /\ UNCHANGED <<op, pc, async_strategy, capabilities, now, clientVars,
                   rqVars, lastRequest, sentTo, envVars, pollVars, opExc,
                   down, loc,
                   most_recent_request_id>>

NextUpload ==
    \/ UploadStart
    \/ UploadRead
    \/ UploadSendOk
    \/ UploadSendApiError
    \/ UploadSendConnectionError
    \/ UploadTruncate
    \/ UploadFinish

InitUpload ==
    /\ op = "upload"
    /\ pc = "call"
    /\ async_strategy = ASYNC_BLOCK
    /\ capabilities = {}
    /\ now = 0
    /\ cached_auth = 1
    /\ authCalls = 1
    /\ base_url = "base_url"
    /\ rqPc = "idle"
    /\ rqReq = "none"
    /\ rqDeadline = 0
    /\ rqExc = "none"
    /\ rqRes = NoOutcome
    /\ attempts = 0
    /\ sleeps = 0
    /\ rq401 = 0
    /\ rq406 = 0
    /\ pastDeadline406 = FALSE
    /\ lastRequest = "none"
    /\ tot401 = 0
    /\ tot406 = 0
    /\ slow = 0
    /\ deadline = 0
    /\ snap = "none"
    /\ inProgSeen = 0
    /\ fetches = 0
    /\ pollSleeps = 0
    /\ lastSleepAt = 0
    /\ opExc = "none"
    /\ down = NoDownload
    /\ sentTo = "none"
    /\ most_recent_request_id = EarlierRequestId(cached_auth)
    /\ loc = NoLocals
    /\ \E engine \in Engines, size \in SourceSizes :
        up = [pc |-> "start",
              engine |-> engine,
              size |-> size,          \* length of the source
              pos |-> 0,              \* the reader's position
              d |-> <<0, 0>>,         \* the chunk held: source[d[1] .. d[2])
              buffer_size |-> InitialBufferSize,
              total |-> 0,
              retries |-> 0,
              remote_total |-> 0,
              sink |-> <<>>,          \* the content of the upload, server side
              artifact |-> FALSE,     \* upload_artifact was issued
              exc |-> "none",
              sends |-> 0,            \* send_upload calls
              truncates |-> 0,        \* successful truncate_upload calls
              consecutive |-> 0,      \* failed sends since the last success
              duplicated |-> FALSE,   \* some chunk reached the server twice
              mismatch |-> FALSE,     \* a reported total differed
              zeroElapsed |-> FALSE,  \* a chunk took no measurable time
              failedCall |-> "none"]  \* the call other than send_upload
                                      \* whose failure ended the upload

SpecUpload == InitUpload /\ [][NextUpload]_vars

\* The scheduler runs the engine: some step is taken while one is possible.
SpecUploadFair == SpecUpload /\ WF_vars(NextUpload)

(***************************************************************************)
(* The two engines side by side (SpecPair): send_upload_file in `up` and   *)
(* the util engine in loc.util, each with an upload of its own, run on the *)
(* same source and given the same elapsed times and the same behaviour of  *)
(* the server, step by step.                                               *)
(***************************************************************************)
\* An engine's state before its first step.
EngineInit(engine, size) ==
    [pc |-> "start",
     engine |-> engine,
     size |-> size,
     pos |-> 0,
     d |-> <<0, 0>>,
     buffer_size |-> InitialBufferSize,
     total |-> 0,
     retries |-> 0,
     remote_total |-> 0,
     sink |-> <<>>,
     artifact |-> FALSE,
     exc |-> "none",
     sends |-> 0,
     truncates |-> 0,
     consecutive |-> 0,
     duplicated |-> FALSE,
     mismatch |-> FALSE,
     zeroElapsed |-> FALSE,
     failedCall |-> "none"]

\* What the two engines are compared by: the place in the loop, the chunk
\* held and the reader's position, the send and truncate requests made and
\* what they left in the upload, the byte total and the exception.  The
\* creation of the artifact, which only util makes once the loop is over,
\* is left out: its failure counts as a completed upload.
Protocol(u) ==
    LET uploaded == \/ u.pc \in {"finish", "done"}
                    \/ u.failedCall = "upload_artifact"
    IN [at |-> IF uploaded THEN "uploaded" ELSE u.pc,
        exc |-> IF uploaded THEN "none" ELSE u.exc,
        d |-> u.d,
        pos |-> u.pos,
        buffer_size |-> u.buffer_size,
        total |-> u.total,
        retries |-> u.retries,
        sends |-> u.sends,
        truncates |-> u.truncates,
        sink |-> u.sink]

\* Both engines are at the same place of the loop.
PairAt(place) == op = "upload_pair" /\ up.pc = place /\ loc.util.pc = place

PairUnchanged ==
    UNCHANGED <<op, pc, async_strategy, capabilities, now, clientVars,
                rqVars, lastRequest, sentTo, envVars, pollVars, opExc, down,
                most_recent_request_id>>

\* Both engines start; each has its upload.
PairStart ==
    /\ PairAt("start")
    /\ up' = EngineStart(up, TRUE)
    /\ loc' = [loc EXCEPT !.util = EngineStart(loc.util, TRUE)]
    /\ PairUnchanged

\* Both engines read their next chunk.
PairRead ==
    /\ PairAt("read")
    /\ up' = EngineRead(up)
    /\ loc' = [loc EXCEPT !.util = EngineRead(loc.util)]
    /\ PairUnchanged

\* Both sends succeed, in the same time and with the same behaviour of the
\* server.
PairSendOk ==
    /\ PairAt("send")
    /\ \E elapsed \in ElapsedTicks, twice \in BOOLEAN :
        /\ up' = EngineSendOk(up, elapsed, twice)
        /\ loc' = [loc EXCEPT !.util = EngineSendOk(loc.util, elapsed, twice)]
    /\ PairUnchanged

\* Both sends raise an APIException, the same part of the chunk kept.
PairSendApiError ==
    /\ PairAt("send")
    /\ \E kept \in KeptOfFailedChunk(up.d[2] - up.d[1])
                     \cap KeptOfFailedChunk(loc.util.d[2] - loc.util.d[1]) :
        /\ up' = EngineSendApiError(up, kept)
        /\ loc' = [loc EXCEPT !.util = EngineSendApiError(loc.util, kept)]
    /\ PairUnchanged

\* Both sends raise an exception that is not an APIException.
PairSendConnectionError ==
    /\ PairAt("send")
    /\ \E kept \in KeptOfFailedChunk(up.d[2] - up.d[1])
                     \cap KeptOfFailedChunk(loc.util.d[2] - loc.util.d[1]) :
        /\ up' = EngineSendConnectionError(up, kept)
        /\ loc' = [loc EXCEPT
                     !.util = EngineSendConnectionError(loc.util, kept)]
    /\ PairUnchanged

\* Both engines truncate their upload; the server answers both alike.
PairTruncate ==
    /\ PairAt("truncate")
    /\ \E ok \in BOOLEAN :
        /\ up' = EngineTruncate(up, ok)
        /\ loc' = [loc EXCEPT !.util = EngineTruncate(loc.util, ok)]
    /\ PairUnchanged

\* Both readers are exhausted: send_upload_file returns, util creates the
\* artifact.
PairFinish ==
    /\ PairAt("finish")
    /\ \E ok \in BOOLEAN :
        /\ up' = EngineFinish(up, TRUE)
        /\ loc' = [loc EXCEPT !.util = EngineFinish(loc.util, ok)]
    /\ PairUnchanged

NextPair ==
    \/ PairStart
    \/ PairRead
    \/ PairSendOk
    \/ PairSendApiError
    \/ PairSendConnectionError
    \/ PairTruncate
    \/ PairFinish

InitPair ==
    /\ op = "upload_pair"
    /\ pc = "call"
    /\ async_strategy = ASYNC_BLOCK
    /\ capabilities = {}
    /\ now = 0
    /\ cached_auth = 1
    /\ authCalls = 1
    /\ base_url = "base_url"
    /\ rqPc = "idle"
    /\ rqReq = "none"
    /\ rqDeadline = 0
    /\ rqExc = "none"
    /\ rqRes = NoOutcome
    /\ attempts = 0
    /\ sleeps = 0
    /\ rq401 = 0
    /\ rq406 = 0
    /\ pastDeadline406 = FALSE
    /\ lastRequest = "none"
    /\ tot401 = 0
    /\ tot406 = 0
    /\ slow = 0
    /\ deadline = 0
    /\ snap = "none"
    /\ inProgSeen = 0
    /\ fetches = 0
    /\ pollSleeps = 0
    /\ lastSleepAt = 0
    /\ opExc = "none"
    /\ down = NoDownload
    /\ sentTo = "none"
    /\ most_recent_request_id = EarlierRequestId(cached_auth)
    /\ \E size \in SourceSizes :
        /\ up = EngineInit("client", size)
        /\ loc = [op |-> "pair", util |-> EngineInit("util", size)]

SpecPair == InitPair /\ [][NextPair]_vars

(***************************************************************************)
(* The upload commands (SpecCommand): artifact_upload of                   *)
(* commandline/artifact.py and instance_upload of commandline/instance.py, *)
(* which look for a blob with the file's SHA-512 before they hand the file *)
(* to the util engine.                                                     *)
(***************************************************************************)
UploadCommands == {"artifact_upload", "instance_upload"}

\* What get_blob_by_sha512 may return: a blob, or the JSON null or empty
\* object of a server that has none.
SearchAnswers == {"blob", "None", "{}"}

\* Variant: every answer counts as no blob.
BlobMissingAlways(blob) == TRUE

\* `if not blob:` on what the search gave (None when it was not made).
BlobMissing(blob) == blob \in {"None", "{}"}

\* The root pages that differ for the commands.
CommandRootPages ==
    {{}, {"blob-search-by-hash"}, {"instance-put-blob"},
     {"blob-search-by-hash", "instance-put-blob"}}

\* The command's locals: what the search gave, where the artifact came
\* from ("none": no artifact yet) and whether instance_put_blob was done.
CommandLocals(blob, artifact, put) ==
    [op |-> "command", blob |-> blob, artifact |-> artifact, put |-> put]

\* `if not check_capability('blob-search-by-hash'): blob = None`, else
\* blob = util.checksum_with_progress(client, source).
CommandSearch ==
    /\ pc = "search"
    /\ IF ~check_capability("blob-search-by-hash")
       THEN /\ loc' = [loc EXCEPT !.blob = "None"]
            /\ pc' = "decide"
            /\ opExc' = opExc
       ELSE \E ok \in BOOLEAN :
            IF ok
            THEN /\ \E answer \in SearchAnswers :
                      loc' = [loc EXCEPT !.blob = answer]
                 /\ pc' = "decide"
                 /\ opExc' = opExc
            ELSE /\ pc' = "raised"
                 /\ opExc' = "APIException"
                 /\ loc' = loc
    /\ UNCHANGED <<op, async_strategy, capabilities, now, clientVars, rqVars,
                   lastRequest, sentTo, envVars, pollVars, up, down,
                   most_recent_request_id>>

\* `if not blob:` the file goes to util.upload_artifact_with_progress, else
\* the artifact is made of the blob found: client.blob_artifact(name, uuid).
CommandDecide ==
    /\ pc = "decide"
    /\ IF BlobMissing(loc.blob)
       THEN /\ up' = [up EXCEPT !.pc = "start"]
            /\ pc' = "upload"
            /\ UNCHANGED <<loc, opExc>>
       ELSE \E ok \in BOOLEAN :
            /\ up' = up
            /\ IF ok
               THEN /\ loc' = [loc EXCEPT !.artifact = "blob"]
                    /\ pc' = "created"
                    /\ opExc' = opExc
               ELSE /\ pc' = "raised"
                    /\ opExc' = "APIException"
                    /\ loc' = loc
    /\ UNCHANGED <<op, async_strategy, capabilities, now, clientVars, rqVars,
                   lastRequest, sentTo, envVars, pollVars, down,
                   most_recent_request_id>>

\* util.upload_artifact_with_progress is over: it returned the artifact it
\* made of the upload, or it raised or exited and so does the command.
CommandUploaded ==
    /\ pc = "upload"
    /\ up.pc \in {"done", "raised", "exited"}
    /\ IF up.pc = "done"
       THEN /\ loc' = [loc EXCEPT !.artifact = "upload"]
            /\ pc' = "created"
            /\ opExc' = opExc
       ELSE /\ pc' = up.pc
            /\ opExc' = up.exc
            /\ loc' = loc
    /\ UNCHANGED <<op, async_strategy, capabilities, now, clientVars, rqVars,
                   lastRequest, sentTo, envVars, pollVars, up, down,
                   most_recent_request_id>>

\* print('Created artifact ...'); instance_upload then places the blob on
\* the instance with client.instance_put_blob.
CommandCreated ==
    /\ pc = "created"
    /\ IF op = "artifact_upload"
       THEN /\ pc' = "done"
            /\ UNCHANGED <<loc, opExc>>
       ELSE IF ~check_capability("instance-put-blob")
       THEN /\ pc' = "raised"
            /\ opExc' = "IncapableException"
            /\ loc' = loc
       ELSE \E ok \in BOOLEAN :
            IF ok
            THEN /\ loc' = [loc EXCEPT !.put = TRUE]
                 /\ pc' = "done"
                 /\ opExc' = opExc
            ELSE /\ pc' = "raised"
                 /\ opExc' = "APIException"
                 /\ loc' = loc
    /\ UNCHANGED <<op, async_strategy, capabilities, now, clientVars, rqVars,
                   lastRequest, sentTo, envVars, pollVars, up, down,
                   most_recent_request_id>>

NextCommand ==
    \/ NextUpload
    \/ CommandSearch
    \/ CommandDecide
    \/ CommandUploaded
    \/ CommandCreated

InitCommand ==
    /\ op \in UploadCommands
    /\ pc = "search"
    /\ async_strategy = ASYNC_PAUSE
    /\ capabilities \in CommandRootPages
    /\ op = "artifact_upload" => "instance-put-blob" \notin capabilities
    /\ now = 0
    /\ cached_auth = 1
    /\ authCalls = 1
    /\ base_url = "base_url"
    /\ rqPc = "idle"
    /\ rqReq = "none"
    /\ rqDeadline = 0
    /\ rqExc = "none"
    /\ rqRes = NoOutcome
    /\ attempts = 0
    /\ sleeps = 0
    /\ rq401 = 0
    /\ rq406 = 0
    /\ pastDeadline406 = FALSE
    /\ lastRequest = "none"
    /\ tot401 = 0
    /\ tot406 = 0
    /\ slow = 0
    /\ deadline = 0
    /\ snap = "none"
    /\ inProgSeen = 0
    /\ fetches = 0
    /\ pollSleeps = 0
    /\ lastSleepAt = 0
    /\ opExc = "none"
    /\ down = NoDownload
    /\ sentTo = "none"
    /\ most_recent_request_id = EarlierRequestId(cached_auth)
    /\ loc = CommandLocals("not searched", "none", FALSE)
    /\ \E size \in SourceSizes :
        up = [pc |-> "idle",
              engine |-> "util",
              size |-> size,
              pos |-> 0,
              d |-> <<0, 0>>,
              buffer_size |-> InitialBufferSize,
              total |-> 0,
              retries |-> 0,
              remote_total |-> 0,
              sink |-> <<>>,
              artifact |-> FALSE,
              exc |-> "none",
              sends |-> 0,
              truncates |-> 0,
              consecutive |-> 0,
              duplicated |-> FALSE,
              mismatch |-> FALSE,
              zeroElapsed |-> FALSE,
              failedCall |-> "none"]

SpecCommand == InitCommand /\ [][NextCommand]_vars

(***************************************************************************)
(* The resumable downloads: the loops of `artifact download`               *)
(* (commandline/artifact.py, "artifact") and of `backup create`            *)
(* (commandline/backup.py, "backup") around Client.get_blob_data.  The     *)
(* blob's bytes are named by their offsets, as the source's are above.     *)
(* One step of the stream delivers a run of whole 8192-byte chunks or a    *)
(* single short chunk.                                                     *)
(***************************************************************************)
MaxWindows == 2      \* no request is made once MaxWindows * Window bytes
                     \* have been received
MaxSmallChunks == 2  \* runs shorter than the rest of the response
MaxDownFaults == 3   \* failures of the connection during one download

Window == 512 * 1024 * 1024
ChunkSize == 8192

DownEngines == {"artifact", "backup"}

\* The sizes of the blob on the server, and the sizes its metadata states.
BlobSizes == {0, 1, ChunkSize + 1, Window, Window + 1}

\* What the stream may fail with: http.client.IncompleteRead (standing for
\* urllib3's ProtocolError and requests' ChunkedEncodingError too),
\* ConnectionResetError, and urllib3's NewConnectionError.
FailureKinds == {"IncompleteRead", "ConnectionResetError",
                 "NewConnectionError"}

\* Everything but the download engine's state.
notDown == <<op, pc, async_strategy, capabilities, now, clientVars, rqVars,
             lastRequest, sentTo, envVars, pollVars, opExc, up,
             most_recent_request_id, loc>>

\* The server's answer to a request for the blob's data from `offset`: the
\* bytes [offset, ResponseEnd), at most `limit` of them when a limit is sent.
ResponseEnd(blob, offset, limited) ==
    Max(offset, IF limited THEN Min(blob, offset + Window) ELSE blob)

\* The offset of get_blob_data's next window: the loop requests
\* `'/data?offset=' + str(offset)` again and never assigns `offset`.
NextWindowOffset(offset, fetched) == offset

\* The lengths of the run of chunks a step of the stream may deliver.
ChunkRuns(rest, small) ==
    {n \in {1, ChunkSize, rest} :
        /\ n <= rest
        /\ n < rest => small < MaxSmallChunks}

\* Variant: only a short download counts as a mismatch.
SizeMismatchShortOnly(total, size) == total < size

\* `if total != size:` after the loop.
SizeMismatch(total, size) == total # size

\* The top of the outer loop (`while not done:`, `while size != total:`),
\* then the call get_blob_data(blob_uuid, offset=total) up to its request.
DownLoop ==
    /\ down.pc = "loop"
    /\ IF down.engine = "backup" /\ down.size = down.total
       THEN down' = [down EXCEPT !.pc = "finish"]
       ELSE down' = [down EXCEPT
                        !.pc = "request",
                        !.bytes_in_attempt = 0,
                        !.offset = down.total,
                        !.callOffset = down.total,
                        !.returned = FALSE,
                        !.supports_limits =
                            "blob-data-limit" \in capabilities,
                        !.fetched = 0,
                        !.yielded = <<>>,
                        !.windows = 0]
    /\ UNCHANGED notDown

\* r = self._request_url('GET', '/blobs/.../data?offset=...', stream=True)
DownRequest ==
    /\ down.pc = "request"
    /\ down.total < MaxWindows * Window
    /\ \E ok \in BOOLEAN :
        IF ok
        THEN down' = [down EXCEPT
                         !.pc = "stream",
                         !.reqOffset = down.offset,
                         !.reqTotal = down.total,
                         !.reqYielded = ContentLen(down.yielded),
                         !.wpos = down.offset,
                         !.wend = ResponseEnd(down.blob, down.offset,
                                              down.supports_limits),
                         !.fetched = 0,
                         !.windows = @ + 1]
        ELSE down' = [down EXCEPT !.pc = "raised", !.exc = "APIException"]
    /\ UNCHANGED notDown

\* for chunk in r.iter_content(chunk_size=8192): yield chunk, and the body
\* of the caller's loop: f.write(chunk), total += received.
DownChunk ==
    /\ down.pc = "stream"
    /\ down.wpos < down.wend
    /\ \E n \in ChunkRuns(down.wend - down.wpos, down.small) :
        down' = [down EXCEPT
                    !.wpos = @ + n,
                    !.fetched = IF down.supports_limits THEN @ + n ELSE @,
                    !.yielded = ContentAppend(@, down.wpos, down.wpos + n),
                    !.sink = ContentAppend(@, down.wpos, down.wpos + n),
                    !.bytes_in_attempt = @ + n,
                    !.total = @ + n,
                    !.small = IF n < down.wend - down.wpos
                              THEN @ + 1 ELSE @]
    /\ UNCHANGED notDown

\* The response is exhausted: `if fetched < limit: return`, or the next
\* window; without limits the generator returns.  When the generator
\* returns, artifact_download sets done = True.
DownStreamEnd ==
    /\ down.pc = "stream"
    /\ down.wpos = down.wend
    /\ IF down.supports_limits /\ ~(down.fetched < Window)
       THEN down' = [down EXCEPT
                        !.pc = "request",
                        !.offset = NextWindowOffset(down.offset,
                                                    down.fetched)]
       ELSE down' = [down EXCEPT
                        !.pc = IF down.engine = "artifact"
                               THEN "finish" ELSE "loop",
                        !.returned = TRUE,
                        !.done = (down.engine = "artifact")]
    /\ UNCHANGED notDown

\* The stream raises: the except clauses of the two loops.
DownFail ==
    /\ down.pc = "stream"
    /\ down.faults < MaxDownFaults
    /\ \E kind \in FailureKinds :
        LET d == [down EXCEPT
                     !.faults = @ + 1,
                     !.lastFail = [kind |-> kind,
                                   bytes |-> down.bytes_in_attempt]]
        IN
        IF down.engine = "artifact"
        THEN IF kind = "NewConnectionError"
             THEN IF down.connection_failures + 1 > 2
                  THEN down' = [d EXCEPT
                                   !.connection_failures = @ + 1,
                                   !.pc = "exited",
                                   !.exc = "SystemExit",
                                   !.report = "connection repeatedly failed"]
                  ELSE down' = [d EXCEPT
                                   !.connection_failures = @ + 1,
                                   !.pc = "loop"]
             ELSE IF down.bytes_in_attempt = 0
                  THEN down' = [d EXCEPT
                                   !.pc = "exited",
                                   !.exc = "SystemExit",
                                   !.report = "connection dropped"]
                  ELSE down' = [d EXCEPT !.pc = "loop"]
        ELSE IF kind = "IncompleteRead" /\ down.bytes_in_attempt # 0
             THEN down' = [d EXCEPT !.pc = "loop"]
             ELSE down' = [d EXCEPT !.pc = "raised", !.exc = kind]
    /\ UNCHANGED notDown

\* After the loop: `if total != size: print(...); sys.exit(1)`, else
\* 'Download complete' (artifact) or the rename of the partial file (backup).
DownFinish ==
    /\ down.pc = "finish"
    /\ IF SizeMismatch(down.total, down.size)
       THEN down' = [down EXCEPT
                        !.pc = "exited",
                        !.exc = "SystemExit",
                        !.report = "mismatch",
                        !.reported = <<down.size, down.total>>]
       ELSE down' = [down EXCEPT !.pc = "complete", !.report = "complete"]
    /\ UNCHANGED notDown

NextDownload ==
    \/ DownLoop
    \/ DownRequest
    \/ DownChunk
    \/ DownStreamEnd
    \/ DownFail
    \/ DownFinish

InitDownload ==
    /\ op = "download"
    /\ pc = "call"
    /\ async_strategy = ASYNC_BLOCK
    /\ capabilities \in {{}, {"blob-data-limit"}}
    /\ now = 0
    /\ cached_auth = 1
    /\ authCalls = 1
    /\ base_url = "base_url"
    /\ rqPc = "idle"
    /\ rqReq = "none"
    /\ rqDeadline = 0
    /\ rqExc = "none"
    /\ rqRes = NoOutcome
    /\ attempts = 0
    /\ sleeps = 0
    /\ rq401 = 0
    /\ rq406 = 0
    /\ pastDeadline406 = FALSE
    /\ lastRequest = "none"
    /\ tot401 = 0
    /\ tot406 = 0
    /\ slow = 0
    /\ deadline = 0
    /\ snap = "none"
    /\ inProgSeen = 0
    /\ fetches = 0
    /\ pollSleeps = 0
    /\ lastSleepAt = 0
    /\ opExc = "none"
    /\ up = NoUpload
    /\ sentTo = "none"
    /\ most_recent_request_id = EarlierRequestId(cached_auth)
    /\ loc = NoLocals
    /\ \E engine \in DownEngines, size \in BlobSizes, blob \in BlobSizes :
        down = [pc |-> "loop",
                engine |-> engine,
                size |-> size,            \* the size the metadata states
                blob |-> blob,            \* the length of the blob served
                total |-> 0,
                bytes_in_attempt |-> 0,   \* this_attempt in backup.py
                connection_failures |-> 0,
                done |-> FALSE,
                offset |-> 0,             \* get_blob_data's offset
                callOffset |-> 0,         \* the offset it was called with
                supports_limits |-> FALSE,
                fetched |-> 0,
                wpos |-> 0,               \* next byte of the response
                wend |-> 0,               \* end of the response
                sink |-> <<>>,            \* the bytes written to the file
                yielded |-> <<>>,         \* bytes this generator yielded
                windows |-> 0,            \* requests of this generator
                reqOffset |-> -1,         \* offset of the latest request
                reqTotal |-> 0,           \* `total` when it was made
                reqYielded |-> 0,         \* bytes yielded when it was made
                returned |-> FALSE,       \* this generator returned
                small |-> 0,
                faults |-> 0,
                lastFail |-> [kind |-> "none", bytes |-> 0],
                exc |-> "none",
                report |-> "none",
                reported |-> <<>>]

SpecDownload == InitDownload /\ [][NextDownload]_vars

\* The scheduler runs the download: some step is taken while one is possible.
SpecDownloadFair == SpecDownload /\ WF_vars(NextDownload)

(***************************************************************************)
(* Properties of the download engines.                                     *)
(***************************************************************************)
\* C11: at every moment the bytes written to the sink are exactly the first
\* `total` bytes of the blob, and every request to the source starts at
\* offset `total`; a dropped connection (IncompleteRead) after at least one
\* byte of the attempt makes the loop request again, from the advanced
\* offset, and one in an attempt that received nothing aborts at once; a
\* download of a blob of the stated size that completes has written exactly
\* the blob.
C11_ResumableDownload ==
    [][/\ down'.sink = Range(0, down'.total)
       /\ down'.reqOffset # -1 => down'.reqOffset = down'.reqTotal
       /\ (/\ down.pc = "stream"
           /\ down'.faults = down.faults + 1
           /\ down'.lastFail.kind = "IncompleteRead") =>
              IF down.bytes_in_attempt > 0
              THEN down'.pc = "loop" /\ down'.total = down.total
              ELSE down'.pc \in {"exited", "raised"} /\ down'.exc # "none"
       /\ (down'.pc = "complete" /\ down'.blob = down'.size) =>
              /\ down'.total = down'.size
              /\ down'.sink = Range(0, down'.size)]_vars

\* C12: with blob-data-limit, every window get_blob_data requests starts at
\* the offset it was called with advanced by the bytes it has yielded, a
\* further window is requested only after a full one, and the bytes yielded
\* are the blob's from that offset on, each once and in order: all of them
\* to the blob's end once the generator has returned.
C12_WindowedDownload ==
    (down.pc # "idle" /\ down.supports_limits /\ down.windows > 0) =>
        /\ down.reqOffset = down.callOffset + down.reqYielded
        /\ down.yielded =
              Range(down.callOffset,
                    down.callOffset + ContentLen(down.yielded))
        /\ (down.pc = "request") => down.fetched = 512 * 1024 * 1024
        /\ down.returned =>
              /\ down.fetched < 512 * 1024 * 1024
              /\ down.yielded =
                    Range(down.callOffset, Max(down.callOffset, down.blob))

\* C13: artifact_download reports completion only with total equal to the
\* size; once the source has ended cleanly, a total that differs from the
\* size (smaller or larger) ends the command with exit status 1 and the
\* report of both counts, an equal one with 'Download complete'.
C13_DownloadPostCondition ==
    (down.pc # "idle" /\ down.engine = "artifact") =>
        /\ (down.report = "complete") = (down.pc = "complete")
        /\ down.pc = "complete" => down.total = down.size
        /\ (down.done /\ down.pc # "finish") =>
              IF down.total = down.size
              THEN down.pc = "complete" /\ down.exc = "none"
              ELSE /\ down.pc = "exited"
                   /\ down.exc = "SystemExit"
                   /\ down.report = "mismatch"
                   /\ down.reported = <<down.size, down.total>>

\* C13's case: the source ended cleanly having delivered more than the
\* stated size, and the command exited with the mismatch report.
C13_Witness ==
    /\ down.pc = "exited"
    /\ down.engine = "artifact"
    /\ down.done
    /\ down.report = "mismatch"
    /\ down.total > down.size

(***************************************************************************)
(* Properties of the upload engines.                                       *)
(***************************************************************************)
\* The upload so far is one the round-trip statement covers: every failure
\* was an APIException of send_upload, never six in a row, the sink stored
\* each accepted chunk once, and no other call failed.
UploadWellBehaved ==
    /\ up.consecutive <= 5
    /\ ~up.duplicated
    /\ up.failedCall = "none"
    /\ up.exc # "ConnectionError"

\* C7: for every source size and every pattern of chunk-send failures that
\* never has six failures in a row, the sink keeping any part of a failed
\* chunk and every truncate succeeding, the upload does not abort and
\* finishes with total equal to the size and the sink byte-for-byte equal to
\* the source.
C7_RoundTrip ==
    UploadWellBehaved =>
        /\ up.pc \notin {"raised", "exited"}
        /\ up.pc \in {"finish", "done"} =>
              /\ up.total = up.size
              /\ up.sink = Range(0, up.size)

\* C8: retries counts the chunk-send failures since the last successful
\* chunk; the engine truncates and resumes after the first five failures in
\* a row and re-raises the sixth; the upload ends, by exhausting the reader
\* or by raising.
C8_RetryCeiling ==
    /\ [](up.pc # "idle" =>
            /\ up.retries = up.consecutive
            /\ up.retries <= 6
            /\ (up.retries = 6 =>
                  up.pc = "raised" /\ up.exc = "APIException")
            /\ (up.pc = "truncate" => up.retries \in 1 .. 5)
            /\ (up.pc \in {"read", "finish", "done"} /\ up.retries > 0 =>
                  up.truncates >= up.retries))
    /\ <>(up.pc \in {"done", "raised", "exited"})

\* A success, then six failures in a row: the sixth is re-raised.
C8_Witness ==
    /\ up.pc = "raised"
    /\ up.exc = "APIException"
    /\ up.retries = 6
    /\ up.total = 4096
    /\ up.truncates >= 5

\* C9: once a reported total has differed from the bytes sent locally the
\* upload is over: no further chunk, no truncate, and no artifact.
C9_IntegrityAbort ==
    up.mismatch =>
        /\ up.pc \in {"exited", "raised"}
        /\ ~up.artifact

\* C10: the chunk size stays within [4096, 2 MiB], and after a successful
\* chunk the next size is computed whatever the elapsed time was, zero
\* included.
C10_ChunkSizeBounds ==
    /\ up.pc \notin {"idle", "start"} =>
          /\ up.buffer_size >= 4096
          /\ up.buffer_size <= 2 * 1024 * 1024
    /\ up.pc # "idle" => up.exc # "ZeroDivisionError"

(***************************************************************************)
(* Properties of _request_url and of the polling loops.                    *)
(***************************************************************************)
TypeOK ==
    /\ op \in PollOps \cup GatedOps \cup UploadCommands \cup DeleteOps
              \cup {"request_url", "upload", "download", "snapshot_instance",
                    "upload_pair", "await_instance_create",
                    "transport"}
    /\ async_strategy \in Strategies
    /\ now \in Nat
    /\ cached_auth \in Nat
    /\ attempts \in Nat /\ sleeps \in Nat
    /\ pollSleeps \in Nat /\ fetches \in Nat /\ inProgSeen \in Nat

\* C1: a _request_url call whose own request was answered by k 406s, none
\* of them examined past the deadline, and then by a success has slept
\* exactly k times and sent the identical request exactly k+1 times, and
\* returns; a 406 examined before the deadline has passed never makes the
\* call raise.
C1_RetryUntilSuccess ==
    /\ (rqPc = "returned" /\ rq401 = 0) =>
          /\ sleeps = rq406
          /\ attempts = rq406 + 1
          /\ lastRequest = rqReq
          /\ rqExc = "none"
    /\ (rqPc = "raised" /\ rqExc = "DependenciesNotReadyException"
            /\ attempts > 0) => now > rqDeadline
    /\ rqPc = "notready" => sleeps = rq406 - 1

\* The scenario of the specification: three 406s under pause, then success.
C1_Witness ==
    /\ op = "request_url"
    /\ async_strategy = ASYNC_PAUSE
    /\ rqPc = "returned"
    /\ rq401 = 0
    /\ rq406 = 3
    /\ sleeps = 3
    /\ attempts = 4

\* C2: a 406 examined when the deadline has elapsed is re-raised as
\* DependenciesNotReadyException with no further sleep and no further
\* attempt, and once raised the call does nothing more; under strategy
\* continue the call never sleeps, so the first 406 is re-raised.
C2_RaiseAfterDeadline ==
    /\ [][(rqPc = "notready" /\ now > rqDeadline) =>
            /\ rqPc' = "raised"
            /\ rqExc' = "DependenciesNotReadyException"
            /\ sleeps' = sleeps
            /\ attempts' = attempts
            /\ now' = now]_vars
    /\ [][(op = "request_url" /\ rqPc = "raised") =>
            /\ rqPc' = "raised"
            /\ rqExc' = rqExc
            /\ sleeps' = sleeps
            /\ attempts' = attempts]_vars
    /\ [](async_strategy = ASYNC_CONTINUE =>
            /\ sleeps = 0
            /\ rq406 <= 1
            /\ (rq406 = 1 => rqPc \in {"notready", "raised"}))

\* The deadline of strategy pause has run out on the 61st 406.
C2_Witness ==
    /\ op = "request_url"
    /\ async_strategy = ASYNC_PAUSE
    /\ rqPc = "raised"
    /\ rqExc = "DependenciesNotReadyException"
    /\ now > rqDeadline
    /\ sleeps > 0
    /\ attempts = sleeps + 1

\* The in-progress states as the claims name them.
ClaimInProgress(o, state) ==
    IF o = "instance_execute"
    THEN state \in {"queued", "executing", "error"}
    ELSE state \in {"initial", "creating"}

\* C3: the polling loop leaves on the first snapshot that is not
\* in-progress: with N in-progress snapshots seen (the initial response
\* included) it has slept N times and re-fetched N times, one re-fetch per
\* sleep, and returns that snapshot without raising; while the deadline has
\* not passed it does not return an in-progress snapshot.
C3_ExitOnFirstTerminal ==
    /\ [](pc = "check" =>
            /\ fetches = pollSleeps
            /\ inProgSeen =
                 fetches + (IF ClaimInProgress(op, snap) THEN 1 ELSE 0))
    /\ [](pc = "fetch_wait" => pollSleeps = fetches + 1)
    /\ []((pc = "returned" /\ ~ClaimInProgress(op, snap)) =>
            /\ pollSleeps = inProgSeen
            /\ fetches = inProgSeen
            /\ opExc = "none")
    /\ []((pc = "returned" /\ ClaimInProgress(op, snap)) => now > deadline)
    /\ [][(pc = "check" /\ ~ClaimInProgress(op, snap)) =>
            /\ pc' = "returned"
            /\ snap' = snap
            /\ pollSleeps' = pollSleeps
            /\ fetches' = fetches]_vars

\* initial, creating, creating, created under block: four snapshots.
C3_Witness ==
    /\ op = "create_instance"
    /\ async_strategy = ASYNC_BLOCK
    /\ pc = "returned"
    /\ snap = "created"
    /\ inProgSeen = 3
    /\ pollSleeps = 3
    /\ fetches = 3

\* The wait durations of the strategies as the claims name them.
ClaimDuration(strategy) ==
    CASE strategy = "continue" -> -1
      [] strategy = "pause" -> 60
      [] strategy = "block" -> 3600
      [] OTHER -> 0

\* C4: a loop that only ever sees in-progress snapshots stops at the first
\* deadline test made after the deadline has passed and returns the
\* snapshot it holds, still in-progress, without raising: every sleep starts
\* at a time that is not past the deadline, so the loop sleeps at most
\* (duration + 1) times, and with instantaneous requests it returns no later
\* than one second after the deadline.
C4_DeadlineEscape ==
    /\ [][(pc = "check" /\ ClaimInProgress(op, snap) /\ now > deadline) =>
            /\ pc' = "returned"
            /\ snap' = snap
            /\ opExc' = "none"
            /\ now' = now
            /\ pollSleeps' = pollSleeps
            /\ fetches' = fetches]_vars
    /\ []((pc \in {"check", "fetch_wait", "returned"} /\ pollSleeps > 0) =>
            /\ lastSleepAt <= deadline
            /\ pollSleeps <= ClaimDuration(async_strategy) + 1)
    /\ []((pc = "returned" /\ ClaimInProgress(op, snap)
             /\ slow = 0 /\ tot406 = 0) =>
            /\ now > deadline
            /\ now <= deadline + 1)

\* Strategy pause, 62 in-progress snapshots: the 61st sleep is the last.
C4_Witness ==
    /\ op = "allocate_network"
    /\ async_strategy = ASYNC_PAUSE
    /\ pc = "returned"
    /\ snap = "creating"
    /\ pollSleeps = 61
    /\ fetches = 61
    /\ now = deadline + 1
    /\ opExc = "none"

\* C5: under strategy continue the polling operations never sleep and never
\* re-fetch, and return the initial response whatever its state.
C5_ContinueNeverPolls ==
    /\ [](async_strategy = ASYNC_CONTINUE =>
            /\ pollSleeps = 0
            /\ fetches = 0
            /\ sleeps = 0
            /\ pc # "fetch_wait")
    /\ [][(async_strategy = ASYNC_CONTINUE /\ pc = "check") =>
            /\ pc' = "returned"
            /\ snap' = snap
            /\ now' = now
            /\ lastRequest' = lastRequest]_vars

C5_Witness ==
    /\ op = "create_instance"
    /\ async_strategy = ASYNC_CONTINUE
    /\ pc = "returned"
    /\ snap = "initial"
    /\ lastRequest = "POST /instances"
    /\ fetches = 0

\* C6: when the response to the mutating request is not in-progress, the
\* operation returns it at once under every strategy: the mutating request
\* is the last request sent, and the loop neither sleeps nor re-fetches.
C6_TerminalResponseReturnsAtOnce ==
    [][(pc = "check" /\ fetches = 0 /\ ~ClaimInProgress(op, snap)) =>
            /\ pc' = "returned"
            /\ snap' = snap
            /\ now' = now
            /\ pollSleeps' = 0
            /\ fetches' = 0
            /\ opExc' = "none"
            /\ lastRequest = MutatingRequest(op)
            /\ lastRequest' = lastRequest]_vars

C6_Witness ==
    /\ op = "allocate_network"
    /\ async_strategy = ASYNC_BLOCK
    /\ pc = "returned"
    /\ snap = "created"
    /\ fetches = 0
    /\ pollSleeps = 0
    /\ lastRequest = "POST /networks"

\* C14: a 401 answer to the first request of a loop iteration makes the
\* client call _authenticate; a token fetched is stored as cached_auth and
\* the same request is sent once more; a 401 answer to that repeat raises
\* UnauthenticatedException with no further token fetch; a rejected token
\* fetch raises UnauthenticatedException and the request is not sent again.
\* Every token fetch after the first follows a 401, and two of them are at
\* least one dependency-retry sleep apart.
C14_AuthRetriedOnce ==
    [][/\ (rqPc = "attempt" /\ rq401' = rq401 + 1) =>
              /\ rqPc' = "reauthenticate"
              /\ authCalls' = authCalls
       /\ rqPc = "reauthenticate" =>
              /\ authCalls' = authCalls + 1
              /\ lastRequest' = "auth"
              /\ attempts' = attempts
              /\ IF cached_auth' # cached_auth
                 THEN /\ cached_auth' = authCalls'
                      /\ rqPc' = "repeat"
                 ELSE /\ rqPc' = "raised"
                      /\ rqExc' = "UnauthenticatedException"
       /\ rqPc = "repeat" =>
              /\ attempts' = attempts + 1
              /\ lastRequest' = rqReq
              /\ authCalls' = authCalls
              /\ rq401' = rq401 + 1 =>
                    /\ rqPc' = "raised"
                    /\ rqExc' = "UnauthenticatedException"
       /\ rqPc = "raised" => authCalls' = authCalls /\ attempts' = attempts
       /\ authCalls' <= rq401' + 1
       /\ authCalls' <= sleeps' + 2]_vars

\* C14's case: the request was answered 401, a fresh token was fetched and
\* stored, the repeat was answered 401 too, and the call has raised.
C14_Witness ==
    /\ rqPc = "raised"
    /\ rqExc = "UnauthenticatedException"
    /\ rq401 = 2
    /\ attempts = 2
    /\ sleeps = 0
    /\ authCalls = 2
    /\ cached_auth = 2
    /\ lastRequest = rqReq

\* C15: during one _request_url call the credential is refreshed at most
\* once in response to 401 answers, whatever 401s and 406s the server
\* sends.  (A call makes at most one _authenticate before its loop, so at
\* most two in all.)
C15_RefreshAtMostOnce ==
    op = "request_url" => authCalls <= 2

\* C16: a polling operation has one deadline, computed when the operation
\* starts (time 0) and used by the dependency-retry loop of each of its
\* requests and by its polling loop, so that the sleeps of the operation
\* (the time that has passed, less the one-second requests) add up to at
\* most the strategy's duration plus one second.
C16_OneDeadlinePerOperation ==
    (op \in PollOps /\ async_strategy \in {"continue", "pause", "block"}) =>
        /\ now - slow <= ClaimDuration(async_strategy) + 1
        /\ rqPc \in {"attempt", "reauthenticate", "repeat", "notready"} =>
              rqDeadline = ClaimDuration(async_strategy)
        /\ pc \in {"check", "fetch_wait"} =>
              deadline = ClaimDuration(async_strategy)

\* C17: whenever _request_url or a polling loop computes its deadline, the
\* deadline less the time of the computation is the strategy's constant: -1
\* (not positive) for continue, 60 for pause, 3600 for block.
C17_DeadlinePolicy ==
    [][/\ (rqPc = "deadline" /\ rqPc' = "attempt") =>
              /\ rqDeadline' - now = ClaimDuration(async_strategy)
              /\ async_strategy = "continue" => rqDeadline' <= now
       /\ (pc = "post_wait" /\ pc' = "check") =>
              /\ deadline' - now = ClaimDuration(async_strategy)
              /\ async_strategy = "continue" => deadline' <= now]_vars

\* C17's case: a deadline computed at a time other than 0, for strategy
\* block, by _request_url in the re-fetch of a polling loop.
C17_Witness ==
    /\ op \in PollOps
    /\ pc = "fetch_wait"
    /\ rqPc = "attempt"
    /\ async_strategy = "block"
    /\ now > 1
    /\ rqDeadline = now + 3600

\* C18: with a strategy other than 'continue', 'pause' and 'block', the
\* computation of the deadline raises UnknownAsyncStrategy, which the
\* operation's caller receives; no request of the operation is attempted
\* and neither _request_url nor a polling loop sleeps.
C18_UnknownStrategyFatal ==
    [][/\ (rqPc = "deadline"
              /\ async_strategy \notin {"continue", "pause", "block"}) =>
              /\ rqPc' = "raised"
              /\ rqExc' = "UnknownAsyncStrategy"
       /\ (pc = "post_wait" /\ rqPc = "raised"
              /\ async_strategy \notin {"continue", "pause", "block"}
              /\ rqExc = "UnknownAsyncStrategy") =>
              /\ pc' = "raised"
              /\ opExc' = "UnknownAsyncStrategy"
       /\ async_strategy' \notin {"continue", "pause", "block"} =>
              /\ attempts' = 0
              /\ sleeps' = 0
              /\ pollSleeps' = 0
              /\ fetches' = 0]_vars

\* The failure type the claim names for a status that is not accepted.
ClaimErrorType(status) ==
    CASE status = 400 -> "RequestMalformedException"
      [] status = 401 -> "UnauthenticatedException"
      [] status = 403 -> "UnauthorizedException"
      [] status = 404 -> "ResourceNotFoundException"
      [] status = 406 -> "DependenciesNotReadyException"
      [] status = 409 -> "ResourceStateConflictException"
      [] status = 500 -> "InternalServerError"
      [] status = 507 -> "InsufficientResourcesException"
      [] OTHER -> "APIException"

\* C19: _actual_request_url raises eight pairwise different types for 400,
\* 401, 403, 404, 406, 409, 500 and 507 and APIException for any other
\* status but 200 (and 301 on the probe, which does not follow redirects),
\* and returns the response for those; the exception carries the message,
\* the request (method and url, with the base address it was sent to), the
\* status code and the body; _request_url raises every exception other than
\* a 401 and a 406 to its caller as it is, and returns only a 200 response.
C19_FailureKindsDistinct ==
    /\ \A s1, s2 \in {400, 401, 403, 404, 406, 409, 500, 507} :
          s1 # s2 => ActualRequestError(s1, TRUE) # ActualRequestError(s2, TRUE)
    /\ rqRes.type # "nothing" =>
          /\ (rqRes.type = "none") =
                \/ rqRes.status_code = 200
                \/ rqRes.status_code = 301 /\ rqRes.request = "probe"
          /\ rqRes.type # "none" =>
                /\ rqRes.type = ClaimErrorType(rqRes.status_code)
                /\ rqRes.message = "API request failed"
                /\ rqRes.request \in {rqReq, "probe"}
                /\ rqRes.text = <<"text of", rqRes.status_code>>
                /\ lastRequest # "auth" =>
                      /\ rqRes.request = lastRequest
                      /\ rqRes.base = sentTo
          /\ rqRes.type \notin {"none", "UnauthenticatedException",
                                "DependenciesNotReadyException"} =>
                /\ rqPc = "raised"
                /\ rqExc = rqRes.type
    /\ rqPc = "returned" =>
          /\ rqRes.type = "none"
          /\ rqRes.status_code = 200
          /\ rqRes.request = rqReq
    /\ (rqPc = "raised" /\ lastRequest # "auth" /\ rqExc # "TypeError") =>
          rqExc = rqRes.type

\* C19's case: after a dependency retry the request was answered 507 and
\* the call raised InsufficientResourcesException.
C19_Witness ==
    /\ rqPc = "raised"
    /\ rqExc = "InsufficientResourcesException"
    /\ rqRes.status_code = 507
    /\ rqRes.request = rqReq
    /\ sleeps = 1
    /\ attempts = 2

\* C20: a call made with no credential cached probes the base address
\* first, without following redirects; a 301 answer replaces the base
\* address by the redirect's target and a 200 answer leaves it; the
\* authentication request, the call's request and every later request go
\* to the base address then in force, and with a credential cached nothing
\* is probed and the base address does not change.
C20_RedirectOnFirstProbe ==
    [][/\ (rqPc = "start" /\ cached_auth = 0) =>
              /\ lastRequest' = "probe"
              /\ sentTo' = base_url
              /\ rqRes'.status_code = 301 =>
                    /\ base_url' = "location"
                    /\ rqPc' = "authenticate"
              /\ rqRes'.status_code = 200 =>
                    /\ base_url' = base_url
                    /\ rqPc' = "authenticate"
              /\ rqRes'.status_code \notin {200, 301} =>
                    /\ base_url' = base_url
                    /\ rqPc' = "raised"
       /\ (rqPc = "start" /\ cached_auth # 0) => lastRequest' = lastRequest
       /\ cached_auth # 0 => base_url' = base_url
       /\ lastRequest' \notin {"none", "probe"} => sentTo' = base_url']_vars

\* C20's case: the probe was answered 301, and a later request of the
\* session, the re-fetch of a polling loop, went to the redirect's target.
C20_Witness ==
    /\ op = "create_instance"
    /\ base_url = "location"
    /\ cached_auth # 0
    /\ fetches >= 1
    /\ pc = "fetch_wait"
    /\ rqPc = "returned"
    /\ lastRequest = "GET /instances/uuid"
    /\ sentTo = "location"

(***************************************************************************)
(* Claims about a client's life (SpecSession).                             *)
(***************************************************************************)
\* What a step puts on the wire, told from what the client keeps of it.
ProbeSent ==
    rqRes' # rqRes /\ rqRes' # NoOutcome /\ rqRes'.request = "probe"
AuthSent == authCalls' # authCalls
OwnRequestSent == attempts' = attempts + 1

\* C21 (lazy authentication): constructing a client sends no authentication
\* request; a call made with no credential cached sends the probe first,
\* the authentication request only after the probe, and the operation's
\* request only after the authentication; while a credential is cached and
\* the call has received no 401, a step of it sends neither a probe nor an
\* authentication request.
C21_LazyAuthentication ==
    [][ /\ pc = "unbuilt" => ~AuthSent /\ ~ProbeSent /\ cached_auth' = 0
        /\ (cached_auth = 0 /\ rqRes = NoOutcome) =>
              (~AuthSent /\ ~OwnRequestSent)
        /\ (cached_auth = 0 /\ AuthSent) =>
              (rqRes.request = "probe" /\ rqRes.type = "none"
               /\ attempts = 0)
        /\ OwnRequestSent => cached_auth # 0
        /\ ProbeSent =>
              (cached_auth = 0 /\ rqRes = NoOutcome /\ attempts = 0)
        /\ (cached_auth # 0 /\ rq401 = 0) => (~ProbeSent /\ ~AuthSent)
      ]_vars

\* A second call has been answered with the credential the first call
\* fetched: one probe and one authentication were ever sent.
C21_Witness ==
    /\ op = "get_node"
    /\ loc.calls = 2
    /\ rqPc = "returned"
    /\ attempts = 1
    /\ authCalls = 1
    /\ cached_auth = 1
    /\ tot401 = 0

C22_ContentAddressedShortCircuit ==
    (op \in UploadCommands /\ pc \notin {"search", "decide"}
     /\ loc.blob # "not searched") =>
        IF "blob-search-by-hash" \in capabilities /\ loc.blob = "blob"
        THEN /\ up.pc = "idle"
             /\ up.sends = 0
             /\ up.truncates = 0
             /\ ~up.artifact
             /\ loc.artifact \in {"none", "blob"}
             /\ pc \in {"created", "done"} => loc.artifact = "blob"
        ELSE /\ up.pc # "idle"
             /\ loc.artifact \in {"none", "upload"}
             /\ pc \in {"created", "done"} =>
                   /\ loc.artifact = "upload"
                   /\ up.pc = "done"
                   /\ up.artifact

\* instance_upload has recycled a blob and put it on the instance: the
\* engine never ran on the 4097-byte file.
C22_Witness ==
    /\ op = "instance_upload"
    /\ pc = "done"
    /\ loc.blob = "blob"
    /\ loc.artifact = "blob"
    /\ loc.put
    /\ up.size = 4097
    /\ up.pc = "idle"

(***************************************************************************)
(* Claims about the deleting operations and the race with other actors     *)
(* (SpecDelete).                                                           *)
(***************************************************************************)
\* The operations whose polling loop an outside actor may race against.
RacedOps == {"create_instance", "allocate_network", "delete_instance"}

\* The snapshot state on which a raced loop goes on waiting.
ClaimWaiting(o, state) ==
    IF o = "delete_instance"
    THEN state # "deleted"
    ELSE state \in {"initial", "creating"}

\* C24 (tolerance of concurrent external mutation): whatever states the
\* server serves between two fetches of create_instance, allocate_network
\* or delete_instance, each round of the loop decides on the snapshot served
\* last (it returns exactly when that snapshot is no longer waited on or the
\* deadline has passed, and otherwise sleeps one second and fetches again),
\* the value returned is the snapshot served last, and no sleep begins
\* after the deadline.
C24_ExternalMutationTolerated ==
    /\ []((op \in RacedOps /\ pc = "returned" /\ loc.result # "{}") =>
            loc.result = loc.served)
    /\ []((op \in RacedOps /\ pollSleeps > 0) => lastSleepAt <= deadline)
    /\ [][(op \in RacedOps /\ pc \in {"check", "test"}) =>
            IF ~ClaimWaiting(op, loc.served) \/ now > deadline
            THEN /\ pc' = "returned"
                 /\ loc'.result = loc.served
                 /\ now' = now
                 /\ fetches' = fetches
            ELSE /\ pc' \in {"fetch_wait", "get"}
                 /\ now' = now + 1
                 /\ pollSleeps' = pollSleeps + 1]_vars

\* delete_instance has seen the instance in 'error' and then deleted (by
\* whoever), and returned the latter.
C24_Witness ==
    /\ op = "delete_instance"
    /\ async_strategy = ASYNC_PAUSE
    /\ pc = "returned"
    /\ fetches = 3
    /\ pollSleeps = 2
    /\ loc.result = "deleted"
    /\ loc.served = "deleted"

\* C25: under strategy continue delete_all_instances makes one request,
\* DELETE /instances with confirm=True and the namespace: whatever list the
\* server reports, no instance is fetched, nothing sleeps, and the operation
\* returns the reported list with the DELETE as the last request sent.
C25_DeleteAllContinue ==
    (op = "delete_all_instances" /\ async_strategy = ASYNC_CONTINUE) =>
        /\ loc.requests \subseteq
              {"DELETE /instances confirm=True namespace=ns"}
        /\ loc.calls <= 1
        /\ fetches = 0
        /\ pollSleeps = 0
        /\ sleeps = 0
        /\ pc \notin {"for", "all_wait"}
        /\ pc = "returned" =>
              /\ loc.calls = 1
              /\ loc.result = loc.deleted
              /\ lastRequest = "DELETE /instances confirm=True namespace=ns"
              /\ now <= MaxPollFaults

\* Two instances were reported as being deleted and the list came back at
\* once.
C25_Witness ==
    /\ op = "delete_all_instances"
    /\ async_strategy = ASYNC_CONTINUE
    /\ pc = "returned"
    /\ loc.result = <<"a", "b">>
    /\ loc.waiting_for = {"a", "b"}
    /\ now = 0

\* C26 as stated: delete_instance(ref, async_request=True) makes one
\* request, DELETE /instances/<ref>, and returns an empty result without
\* fetching the instance and without sleeping, under every strategy.
C26_AsyncDeleteNeverSleeps ==
    (op = "delete_instance" /\ loc.async_request) =>
        /\ loc.requests \subseteq {"DELETE /instances/ref"}
        /\ loc.calls <= 1
        /\ fetches = 0
        /\ pollSleeps = 0
        /\ sleeps = 0
        /\ pc = "returned" =>
              /\ loc.calls = 1
              /\ loc.result = "{}"
              /\ lastRequest = "DELETE /instances/ref"

\* C26 (amended): delete_instance(ref, async_request=True) makes one
\* request, DELETE /instances/<ref>, and returns an empty result without
\* fetching the instance and without sleeping other than the one-second
\* sleeps of _request_url after a 406 answer to the DELETE (none under
\* continue), under every strategy.
C26_AsyncDeleteSleepsOnlyOn406 ==
    (op = "delete_instance" /\ loc.async_request) =>
        /\ loc.requests \subseteq {"DELETE /instances/ref"}
        /\ loc.calls <= 1
        /\ fetches = 0
        /\ pollSleeps = 0
        /\ sleeps <= rq406
        /\ async_strategy = ASYNC_CONTINUE => sleeps = 0
        /\ sleeps > 0 => rqReq = "DELETE /instances/ref"
        /\ pc = "returned" =>
              /\ loc.calls = 1
              /\ loc.result = "{}"
              /\ lastRequest = "DELETE /instances/ref"

\* Under block the DELETE was answered 406 once, slept on, and then
\* accepted: the empty result came back with no fetch.
C26_Witness ==
    /\ op = "delete_instance"
    /\ loc.async_request
    /\ async_strategy = ASYNC_BLOCK
    /\ pc = "returned"
    /\ loc.result = "{}"
    /\ tot406 = 1
    /\ now = 1

(***************************************************************************)
(* Claims about snapshot_instance (SpecSnapshot).                          *)
(***************************************************************************)
\* C27 (label after snapshot completion): when snapshot_instance is given a
\* label_name, the wait for the blobs uses strategy block whatever the
\* client's strategy, and the request that moves the label is made only for
\* a blob that was seen in state 'created'.
C27_LabelAfterCreated ==
    (op = "snapshot_instance" /\ loc.label_name) =>
        /\ loc.strategy \in {"none", ASYNC_BLOCK}
        /\ loc.strategy # "none" => deadline >= BlockSeconds
        /\ loc.labelled # "none" => loc.labelled \notin loc.waiting_for

(***************************************************************************)
(* Claims about the two upload engines side by side (SpecPair).            *)
(***************************************************************************)
\* C28 (the two engines are one protocol): given the same source, the same
\* elapsed times and the same answers of the server, send_upload_file and
\* the util engine make the same send and truncate requests with the same
\* chunks and end alike, with the same byte total or the same failure; only
\* the artifact creation that follows (and the progress bar) differs.
C28_SameProtocol ==
    op = "upload_pair" => Protocol(up) = Protocol(loc.util)

(***************************************************************************)
(* Claims about the download loop of `backup create` (SpecDownloadFair).   *)
(***************************************************************************)
\* The download is over: the file has its final name, or the command has
\* exited or raised.
DownloadOver == down.pc \in {"complete", "exited", "raised"}

\* The download has received as many bytes as the model follows it for.
DownloadBeyondBound == down.total >= MaxWindows * Window

\* C29 (backup download terminates): whatever the source does (a failure
\* after part of the data, a failure after none, a clean end of the stream
\* after fewer or more bytes than the recorded size), the loop of `backup
\* create` ends, with `size` bytes written and the partial file renamed or
\* with a failure; the final name is never given to a file whose byte count
\* is not `size`.
C29_BackupDownloadTerminates ==
    /\ [](down.engine = "backup" /\ down.pc = "complete"
            => ContentLen(down.sink) = down.size)
    /\ (down.engine = "backup") => <>(DownloadOver \/ DownloadBeyondBound)

(***************************************************************************)
(* Claims about await_instance_create (SpecAwait).                         *)
(***************************************************************************)
\* An error state: 'error' or a name that ends with '-error'.
ErrorState(state) == state = <<"error">> \/ EndsWithError(state)

\* C30: await_instance_create returns normally only if the state it saw
\* last is 'created'; once the loop is over it raises
\* InstanceWillNeverBeReady if the state seen last is an error state, and
\* TimeoutException if the timeout elapsed with neither 'created' nor an
\* error state seen; it sleeps 5 seconds between two fetches, and no fetch
\* begins after the timeout has elapsed.
C30_AwaitInstanceCreate ==
    op = "await_instance_create" =>
        /\ pc = "returned" => loc.i = <<"created">>
        /\ (loc.after /\ ErrorState(loc.i))
              => (pc = "raised" /\ opExc = "InstanceWillNeverBeReady")
        /\ (loc.after /\ ~ErrorState(loc.i) /\ loc.i # <<"created">>)
              => (pc = "raised" /\ opExc = "TimeoutException"
                    /\ now - loc.start_time >= loc.timeout)
        /\ loc.slept \in {loc.gets - 1, loc.gets}
        /\ now >= loc.start_time + AwaitSleepSeconds * loc.slept
        /\ pc = "get_wait" /\ rqPc = "start"
              => now - loc.start_time < loc.timeout

(***************************************************************************)
(* Claims about the waiting set of delete_all_instances (SpecDelete).      *)
(***************************************************************************)
\* delete_all_instances is in its polling loop.
DeleteAllPolling ==
    op = "delete_all_instances" /\ pc \in {"while", "for", "all_wait"}

\* C31 (the waiting set of delete_all_instances): waiting_for starts as the
\* set of the ids the DELETE reported and only shrinks; an id leaves it only
\* when the fetch of that instance gave nothing or state 'deleted', and only
\* ids still in it are fetched; the loop goes on only while the set is not
\* empty and the deadline has not passed at its test, and ends at that test
\* otherwise; the value returned is the list the server reported, whether
\* the set was emptied or the wait timed out.
C31_WaitingSetOnlyShrinks ==
    /\ [](DeleteAllPolling => loc.waiting_for \subseteq SetOf(loc.deleted))
    /\ [](op = "delete_all_instances" /\ pc = "returned"
            => /\ loc.result = loc.deleted
               /\ loc.waiting_for = {} \/ DeadlinePassed(now, deadline))
    /\ [][(op = "delete_all_instances" /\ pc = "delete_wait"
             /\ pc' = "while")
            => loc'.waiting_for = SetOf(loc'.deleted)]_vars
    /\ [][DeleteAllPolling
            => /\ loc'.waiting_for \subseteq loc.waiting_for
               /\ loc'.deleted = loc.deleted
               /\ loc'.waiting_for # loc.waiting_for
                    => /\ loc.waiting_for \ loc'.waiting_for = {loc.uuid}
                       /\ loc'.served \in {"None", "deleted"}
               /\ (pc' = "all_wait" /\ pc = "for")
                    => loc'.uuid \in loc.waiting_for
               /\ (pc = "while" /\ pc' = "for")
                    => /\ loc.waiting_for # {}
                       /\ ~DeadlinePassed(now, deadline)
               /\ (pc = "while" /\ pc' # "for")
                    => pc' = "returned"]_vars

\* The wait timed out with an instance still waited for, after an instance
\* had left the set, and the reported list is returned.
C31_Witness ==
    /\ op = "delete_all_instances"
    /\ pc = "returned"
    /\ loc.deleted = <<"a", "b">>
    /\ Cardinality(loc.waiting_for) = 1
    /\ loc.result = loc.deleted
    /\ DeadlinePassed(now, deadline)

(***************************************************************************)
(* Claims about the loop of delete_instance (SpecDelete).                  *)
(***************************************************************************)
\* delete_instance was called without async_request.
DeleteInstanceWaits == op = "delete_instance" /\ ~loc.async_request

\* C32 (delete_instance fetches before it tests): without async_request and
\* with a uuid in the answer to the DELETE, delete_instance fetches the
\* instance before anything else under every strategy, and each round goes
\* fetch, state test, deadline test, sleep: a snapshot in state 'deleted'
\* is returned as soon as it is fetched, else the snapshot fetched last is
\* returned at the first deadline test after the deadline, as a value and
\* not an exception; under continue that is one fetch and no sleep.
C32_DeleteInstanceFetchesFirst ==
    /\ []((DeleteInstanceWaits /\ pc = "returned" /\ loc.result # "{}")
            => /\ fetches >= 1
               /\ loc.result = snap
               /\ opExc = "none"
               /\ Deleted(snap) \/ DeadlinePassed(now, deadline)
               /\ async_strategy = ASYNC_CONTINUE
                    => fetches = 1 /\ pollSleeps = 0 /\ now = slow)
    /\ []((DeleteInstanceWaits /\ async_strategy = ASYNC_CONTINUE)
            => fetches <= 1 /\ pollSleeps = 0 /\ sleeps = 0)
    /\ [][(DeleteInstanceWaits /\ pc = "delete_wait" /\ pc' # pc)
            => \/ pc' = "raised"
               \/ pc' = "returned" /\ loc'.result = "{}"
               \/ pc' = "get" /\ fetches' = 0 /\ now' = now]_vars
    /\ [][(DeleteInstanceWaits /\ pc = "get") => pc' = "get_wait"]_vars
    /\ [][(DeleteInstanceWaits /\ pc = "get_wait" /\ pc' # pc)
            => \/ pc' = "raised"
               \/ pc' = "test" /\ fetches' = fetches + 1]_vars
    /\ [][(DeleteInstanceWaits /\ pc = "test")
            => IF Deleted(snap) \/ DeadlinePassed(now, deadline)
               THEN /\ pc' = "returned"
                    /\ loc'.result = snap
                    /\ now' = now
                    /\ pollSleeps' = pollSleeps
               ELSE /\ pc' = "get"
                    /\ now' = now + 1
                    /\ pollSleeps' = pollSleeps + 1]_vars

\* Under continue the instance was fetched once, found not deleted and
\* returned without a sleep.
C32_Witness ==
    /\ DeleteInstanceWaits
    /\ async_strategy = ASYNC_CONTINUE
    /\ pc = "returned"
    /\ loc.result = "deleting"
    /\ fetches = 1
    /\ pollSleeps = 0

(***************************************************************************)
(* Claims about a failing truncate in the upload engines (SpecUpload).     *)
(***************************************************************************)
\* C33 (a failure of the recovery is fatal): when truncate_upload fails
\* after a failed chunk, the exception leaves the engine at once, whatever
\* the count of failed chunks in a row (one to five): the reader stays
\* where it was, behind the failed chunk, nothing more is sent or truncated,
\* and no artifact is created.
C33_TruncateFailureFatal ==
    /\ [](up.pc # "idle" /\ up.failedCall = "truncate_upload"
            => /\ up.pc = "raised"
               /\ up.exc = "APIException"
               /\ up.retries \in 1 .. MaxRetries
               /\ up.pos = up.d[2]
               /\ up.pos > up.total
               /\ ~up.artifact)
    /\ [][(up.pc = "truncate" /\ up'.pc # "read")
            => /\ up'.pc = "raised"
               /\ up'.failedCall = "truncate_upload"
               /\ up'.pos = up.pos
               /\ up'.sends = up.sends
               /\ up'.truncates = up.truncates
               /\ up'.sink = up.sink
               /\ up'.total = up.total]_vars
    /\ [][(up.pc # "idle" /\ up.failedCall = "truncate_upload")
            => UNCHANGED up]_vars

\* The truncate after the first failed chunk failed, with a chunk already
\* uploaded.
C33_Witness ==
    /\ up.pc = "raised"
    /\ up.failedCall = "truncate_upload"
    /\ up.retries = 1
    /\ up.total = 4096
    /\ up.pos = 4097

(***************************************************************************)
(* Claims about the connection retry of the transport primitive            *)
(* (SpecTransport).                                                        *)
(***************************************************************************)
\* C34 (connection-level retry): when session.request raises a connection
\* error, _actual_request_url replaces the session with a new one and hands
\* the same request to it exactly once more, without a sleep; a connection
\* error of that second send leaves _request_url as it is, with no token
\* fetched and no sleep for it, and no third send.
C34_ConnectionRetry ==
    /\ [][(op = "transport" /\ loc' # loc)
            => /\ Len(loc'.wire) = IF loc'.conn = "kept" THEN 1 ELSE 2
               /\ \A k \in DOMAIN loc'.wire : loc'.wire[k] = lastRequest'
               /\ loc'.sessions =
                     loc.sessions + IF loc'.conn = "kept" THEN 0 ELSE 1
               /\ sleeps' = sleeps
               /\ now' - now <= MaxSlow
               /\ authCalls' = authCalls
               /\ loc'.conn = "lost"
                    => /\ rqPc' = "raised"
                       /\ rqExc' = "ConnectionError"
                       /\ rqRes'.type = "ConnectionError"
                       /\ now' = now
               /\ loc'.conn = "rebuilt"
                    => rqRes'.type = ActualRequestError(
                                         rqRes'.status_code,
                                         lastRequest' # "probe")]_vars
    /\ []((op = "transport" /\ rqExc = "ConnectionError")
            => /\ rqPc = "raised"
               /\ loc.conn = "lost"
               /\ Len(loc.wire) = 2
               /\ now = loc.began.now
               /\ sleeps = loc.began.sleeps
               /\ authCalls = loc.began.authCalls)

\* The request was answered 406, slept on, and then lost twice: the
\* ConnectionError left _request_url after two sends and no further sleep.
C34_Witness ==
    /\ op = "transport"
    /\ rqPc = "raised"
    /\ rqExc = "ConnectionError"
    /\ lastRequest = "DELETE /auth/namespaces/ns"
    /\ rq406 = 1
    /\ sleeps = 1
    /\ loc.sessions = 1
    /\ loc.wire = <<"DELETE /auth/namespaces/ns", "DELETE /auth/namespaces/ns">>

====
